---- MODULE Spec2Model ----
(***************************************************************************)
(* Model of the remote (SSH) connection subsystem:                         *)
(*   - the authentication handler returned by getAuthHandler               *)
(*     (remote-ssh-connection-provider.ts),                                *)
(*   - RemoteSetupService.retry and RemoteSetupService.setup               *)
(*     (remote-setup-service.ts),                                          *)
(*   - RemoteSSHConnectionProviderImpl.establishConnection.                *)
(*   - RemoteSSHConnection (exec, execPartial, copy, forwardOut, dispose), *)
(*   - the router stack of RemoteExpressProxyContribution and the        *)
(*     requests routed through it,                                         *)
(*   - RemoteRedirectContribution.redirect.                                *)
(* Seven specifications share the module: SpecAuth (one connection         *)
(* attempt's authentication negotiation), SpecRetry (one call of retry),   *)
(* SpecSetup (one call of establishConnection, bootstrap and disconnect    *)
(* included), SpecExec (one call of exec or execPartial), SpecConn (the    *)
(* lifetime of one connection and the operations called on it),            *)
(* SpecRouter (several sessions sharing the registry and the router, and   *)
(* the HTTP requests routed meanwhile) and SpecRedirect (one call of       *)
(* redirect and the channel it sets up).                                   *)
(***************************************************************************)
EXTENDS Integers, Sequences, FiniteSets, TLC

VARIABLES
    \* ---- authentication handler (closure state of getAuthHandler) ----
    identityKeys,        \* remaining credential candidates (the array that is shift()ed)
    passwordRetryCount,  \* let passwordRetryCount
    keyboardRetryCount,  \* let keyboardRetryCount
    pc,                  \* where the negotiation stands
    branch,              \* branch the current/last handler invocation took
    methodsLeft,         \* argument of the current/last handler invocation
    lastCallback,        \* last value handed to ssh2's callback
    curKey,              \* identityKey of the invocation that is in the passphrase loop
    passphraseRetryCount,\* let passphraseRetryCount (local to the passphrase loop)
    kbdPrompts,          \* number of prompts of the current keyboard-interactive round
    kbdIndex,            \* number of prompts of the round already shown
    responses,           \* const responses: string[] of the round
    \* ---- observation of the negotiation (history) ----
    lastInput,           \* last value quickInputService.input resolved to
    publickeyOffered,    \* every method list so far included 'publickey'
    taken,               \* ids of the candidates shift()ed so far, in order
    submittedKeys,       \* ids of the candidates submitted as publickey, in order
    passwordPrompts,     \* password prompts shown
    passwordSubmits,     \* password requests submitted
    passphrasePrompts,   \* passphrase prompts shown by the current invocation
    kbdSubmits,          \* keyboard-interactive requests submitted
    kbdAnswers,          \* everything the user answered in the current round
    kbdCancelled,        \* the user cancelled a keyboard-interactive prompt
    finished,            \* last argument of finish(), or NotFinished
    \* ---- one call of RemoteSetupService.retry ----
    rAction,             \* what the attempts of action() return, attempt by attempt
    rTimes,              \* the argument times
    rPc,                 \* "call" before the call, "returned" after it
    rReturn,             \* the value returned and the number of attempts made
    \* ---- one call of establishConnection ----
    ePc,                 \* the await establishConnection (or setup) stands at
    error,               \* what establishConnection threw, or "none"
    message,             \* the message of the error thrown
    unameResult,         \* const result of detectRemotePlatform
    remotePort,          \* RemoteSSHConnection.remotePort
    platform,            \* const platform of setup
    nodeDirExists,       \* const nodeDirExists of setup
    libDirExists,        \* const libDirExists of setup
    launchResult,        \* const result of startApplication
    registry,            \* ids the connection service holds a connection for
    servers,             \* ids a listening proxy server was allocated for
    routerStack,         \* app._router.stack, by layer name
    disconnectHandler,   \* the listener of lines 73-77 is installed
    proxyRouter,         \* const proxyRouter: what setupProxyRouter returned
    \* ---- the remote host and the local download cache ----
    nodeDir,             \* the runtime directory exists on the remote
    libDir,              \* the payload directory (lib) exists on the remote
    nodeCached,          \* the runtime archive is in the local tmpdir
    \* ---- observation of the bootstrap (history) ----
    dirsAtStart,         \* nodeDir and libDir when setup began
    downloads,           \* runtime archives downloaded
    copies,              \* files copied to the remote
    extractions,         \* archives extracted on the remote
    launches,            \* launch commands issued
    \* ---- one RemoteSSHConnection: its lifetime ----
    ends,                \* 'end' events of the ssh2 client so far
    destroys,            \* calls of client.destroy() so far
    emitted,             \* times onDidDisconnectEmitter fired
    closedCalls,         \* operations handed to the client after a disconnect
    \* ---- one call of exec or execPartial on it ----
    xKind,               \* "exec" or "execPartial", "none" before the call
    tester,              \* the argument tester of execPartial
    channel,             \* the channel of client.exec
    deferred,            \* deferred.state
    stdout,              \* let stdout, as the chunks appended
    stderr,              \* let stderr, as the chunks appended
    resolution,          \* what deferred was resolved with
    wireOut,             \* every chunk the stream delivered on stdout (history)
    wireErr,             \* every chunk the stream delivered on stderr (history)
    testerCalls,         \* calls of tester
    testerArgs,          \* the arguments of the last call of tester
    trueSeen,            \* tester has returned true
    resolveCalls,        \* calls of deferred.resolve
    \* ---- copy and forwardOut on it ----
    copyState,           \* the promise of copy
    forwards,            \* per local socket, the state of its forwardOut
    piped,               \* the pipes set up: << socket, direction >>
    debugLogs,           \* lines written with console.debug
    \* ---- several sessions on one backend application ----
    stage,               \* per session, how far establishConnection has come
    handles,             \* per session, const proxyRouter
    ended,               \* per session, 'end' events of its client so far
    exchange,            \* the HTTP request just answered and what became of it
    \* ---- one call of redirect(socket) ----
    rdPc,                \* where redirect stands, then what it returned
    rdCookie,            \* cookies.remoteId of socket.request
    proxySession,        \* the tunnel of sessionService.addTunnel
    proxySocket,         \* the socket of socketProvider.getProxySocket
    clientSocket,        \* the socket redirect was called with
    rdListeners,         \* the listeners redirect has installed
    relayed,             \* events relayed, << to the proxy, to the client >>
    \* ---- the handle register() returned, in other hands ----
    released,            \* disposals of the handle from outside the listener
    forwardedTo          \* the remote ports forwardOut was called with

authVars == << identityKeys, passwordRetryCount, keyboardRetryCount, pc, branch,
               methodsLeft, lastCallback, curKey, passphraseRetryCount,
               kbdPrompts, kbdIndex, responses, lastInput,
               publickeyOffered, taken, submittedKeys, passwordPrompts, passwordSubmits,
               passphrasePrompts, kbdSubmits, kbdAnswers,
               kbdCancelled, finished >>

retryVars == << rAction, rTimes, rPc, rReturn >>

setupVars == << ePc, error, message, unameResult, remotePort, platform, nodeDirExists, libDirExists,
                launchResult, registry, servers, routerStack, disconnectHandler,
                proxyRouter,
                nodeDir, libDir, nodeCached, dirsAtStart, downloads, copies,
                extractions, launches >>

lifeVars == << ends, destroys, emitted, closedCalls >>

execVars == << xKind, tester, channel, deferred, stdout, stderr, resolution,
               wireOut, wireErr, testerCalls, testerArgs, trueSeen, resolveCalls >>

forwardVars == << copyState, forwards, piped, debugLogs >>

connVars == << lifeVars, execVars, forwardVars >>

routerVars == << stage, handles, ended, exchange >>

redirectVars == << rdPc, rdCookie, proxySession, proxySocket, clientSocket,
                   rdListeners, relayed >>

webVars == << routerVars, redirectVars, released, forwardedTo >>

vars == << authVars, retryVars, setupVars, connVars, webVars >>

(***************************************************************************)
(* Program constants                                                       *)
(***************************************************************************)
\* protected passwordRetryCount = 3
PasswordRetryCount == 3
\* protected passphraseRetryCount = 3 (also the keyboard-interactive budget)
PassphraseRetryCount == 3

(***************************************************************************)
(* Bounds of the model                                                     *)
(***************************************************************************)
\* candidates gathered by the identity file collector
MaxKeys == 2
\* keyboard-interactive requests submitted in one connection attempt
MaxKbdSubmits == 4
\* prompts in one keyboard-interactive info request
MaxPrompts == 2
\* info requests the server may still send once the budget is used up
MaxOverdraw == 0
\* values of retry's argument times, besides its default
MaxRetryTimes == 3
\* chunks a command's channel delivers on its two streams together
MaxChunks == 3
\* 'end' events the ssh2 client emits for one connection
MaxEnds == 3
\* calls of dispose() from outside the connection
MaxDisposes == 2
\* local sockets handed to forwardOut
MaxSockets == 2
\* sessions established on one backend application
MaxSessions == 2
\* sockets handed to redirect
MaxRedirects == 2
\* events relayed in one direction over a redirected socket
MaxEvents == 1

(***************************************************************************)
(* Values                                                                  *)
(***************************************************************************)
\* methodsLeft: string[] | null.  A list is modelled by the set of its
\* entries: the handler only calls includes() on it.  null is a value of
\* its own, which includes nothing.
NULL == {"<null>"}
Methods == {"publickey", "password", "keyboard-interactive"}
MethodLists == SUBSET Methods

\* what quickInputService.input resolves to: undefined (cancelled), the
\* empty string, or a non-empty string
UNDEFINED == "<undefined>"
PassphraseInputs == {UNDEFINED, "", "right", "wrong"}
PasswordInputs == {UNDEFINED, "", "secret"}
KbdInputs == {UNDEFINED, "", "yes"}
Truthy(s) == s # UNDEFINED /\ s # ""

\* an SSHKey: isPrivate (parsedKey is decrypted key material) or a file that
\* may be absent, parse without passphrase ("plain"), ask for a passphrase
\* ("encrypted", passphrase "right") or fail to parse ("broken")
KeyKinds == {"private", "absent", "plain", "encrypted", "broken"}
NoKey == [id |-> 0, kind |-> "none"]
NotFinished == << "<not finished>" >>

RECURSIVE SeqsUpTo(_, _)
SeqsUpTo(S, n) ==
    IF n = 0 THEN { << >> }
    ELSE LET shorter == SeqsUpTo(S, n - 1)
         IN shorter \cup { Append(s, x) : s \in { t \in shorter : Len(t) = n - 1 }, x \in S }

\* the candidate lists: candidate i of a list has id i
KeyLists == { [i \in 1..Len(ks) |-> [id |-> i, kind |-> ks[i]]] : ks \in SeqsUpTo(KeyKinds, MaxKeys) }

\* ssh2.utils.parseKey(keyBuffer, passphrase?)
NeedsPassphrase == "Encrypted private OpenSSH key detected, but no passphrase given"
parseKey(key, passphrase) ==
    CASE key.kind = "plain" -> "key"
      [] key.kind = "encrypted" ->
            IF passphrase = UNDEFINED THEN NeedsPassphrase
            ELSE IF passphrase = "right" THEN "key" ELSE "Error: bad passphrase"
      [] OTHER -> "Error: unsupported key format"
IsError(result) == result # "key"

Callback(type, key, password) == [type |-> type, key |-> key, password |-> password]

AuthInit ==
    /\ identityKeys \in KeyLists
    /\ passwordRetryCount = PasswordRetryCount
    /\ keyboardRetryCount = PassphraseRetryCount
    /\ pc = "await"
    /\ branch = "start"
    /\ methodsLeft = NULL
    /\ lastCallback = Callback("start", 0, "")
    /\ curKey = NoKey
    /\ passphraseRetryCount = 0
    /\ kbdPrompts = 0
    /\ kbdIndex = 0
    /\ responses = << >>
    /\ lastInput = UNDEFINED
    /\ publickeyOffered = TRUE
    /\ taken = << >>
    /\ submittedKeys = << >>
    /\ passwordPrompts = 0
    /\ passwordSubmits = 0
    /\ passphrasePrompts = 0
    /\ kbdSubmits = 0
    /\ kbdAnswers = << >>
    /\ kbdCancelled = FALSE
    /\ finished = NotFinished

\* the variables of the authentication handler while another part runs
AuthIdle ==
    /\ identityKeys = << >>
    /\ passwordRetryCount = PasswordRetryCount
    /\ keyboardRetryCount = PassphraseRetryCount
    /\ pc = "off"
    /\ branch = "start"
    /\ methodsLeft = NULL
    /\ lastCallback = Callback("start", 0, "")
    /\ curKey = NoKey
    /\ passphraseRetryCount = 0
    /\ kbdPrompts = 0
    /\ kbdIndex = 0
    /\ responses = << >>
    /\ lastInput = UNDEFINED
    /\ publickeyOffered = TRUE
    /\ taken = << >>
    /\ submittedKeys = << >>
    /\ passwordPrompts = 0
    /\ passwordSubmits = 0
    /\ passphrasePrompts = 0
    /\ kbdSubmits = 0
    /\ kbdAnswers = << >>
    /\ kbdCancelled = FALSE
    /\ finished = NotFinished

(***************************************************************************)
(* The authentication handler (getAuthHandler)                             *)
(***************************************************************************)
\* callback(x): ssh2 sends the request x, re-invokes the handler for
\* NEXT_AUTH (null) and ends the attempt with an error for END_AUTH (false)
Deliver(cb) ==
    /\ lastCallback' = cb
    /\ pc' = CASE cb.type = "END_AUTH" -> "failed"
               [] cb.type = "NEXT_AUTH" -> "await"
               [] OTHER -> "submitted"

\* a handler that also takes an empty method list for "no methods"
NoMethods_OrEmpty(m) == m = NULL \/ m = {}

\* if (!methodsLeft): only null is falsy, an empty array is not
NoMethods(m) == m = NULL

\* a publickey branch that leaves the last candidate untried
PublicKeyBranch_SkipsLast(m) == "publickey" \in m /\ Len(identityKeys) > 1

\* methodsLeft.includes('publickey') && identityKeys.length
PublicKeyBranch(m) == "publickey" \in m /\ Len(identityKeys) > 0

\* a password branch that lets the budget reach zero before it stops
PasswordBranch_OffByOne(m) == "password" \in m /\ passwordRetryCount >= 0

\* methodsLeft.includes('password') && passwordRetryCount > 0
PasswordBranch(m) == "password" \in m /\ passwordRetryCount > 0

\* methodsLeft.includes('keyboard-interactive') && keyboardRetryCount > 0
KeyboardBranch(m) == "keyboard-interactive" \in m /\ keyboardRetryCount > 0

\* ssh2 calls the handler: authHandler(methodsLeft, successes, callback)
Invoke(m) ==
    /\ pc = "await"
    /\ methodsLeft' = m
    /\ publickeyOffered' = (publickeyOffered /\ (m = NULL \/ "publickey" \in m))

\* nothing was asked of the user yet in this invocation
NoInput == lastInput' = UNDEFINED

\* the locals of the previous invocation's passphrase loop are gone
NoPassphraseLoop ==
    /\ curKey' = NoKey
    /\ passphraseRetryCount' = 0
    /\ passphrasePrompts' = 0

\* the locals of the previous request's prompt callback are gone
NoKbdRound ==
    /\ kbdPrompts' = 0
    /\ kbdIndex' = 0
    /\ responses' = << >>
    /\ kbdAnswers' = << >>
    /\ finished' = NotFinished

kbdRoundVars == << kbdPrompts, kbdIndex, responses, kbdAnswers, finished >>

\* lines 118-123
HandlerNone(m) ==
    /\ Invoke(m)
    /\ NoMethods(m)
    /\ branch' = "none"
    /\ Deliver(Callback("none", 0, ""))
    /\ NoPassphraseLoop
    /\ NoKbdRound
    /\ NoInput
    /\ UNCHANGED << identityKeys, passwordRetryCount, keyboardRetryCount,
                    taken, submittedKeys, passwordPrompts, passwordSubmits,
                    kbdSubmits, kbdCancelled >>

\* callback({type: 'publickey', username: user, key})
SubmitKey(key) ==
    /\ submittedKeys' = Append(submittedKeys, key.id)
    /\ Deliver(Callback("publickey", key.id, ""))

\* the candidate the publickey branch works on: identityKeys.shift()
ShiftedKey == Head(identityKeys)
\* a handler that reads the first candidate without removing it
ShiftRest_Peek == identityKeys
ShiftRest == Tail(identityKeys)

\* a passphrase loop that goes on until the budget is below zero
PassphraseLoop_OffByOne(result, count) == IsError(result) /\ count >= 0

\* while (result instanceof Error && passphraseRetryCount > 0)
PassphraseLoop(result, count) == IsError(result) /\ count > 0

\* lines 124-141, up to the first passphrase prompt
HandlerPublicKey(m) ==
    /\ Invoke(m)
    /\ ~NoMethods(m)
    /\ PublicKeyBranch(m)
    /\ branch' = "publickey"
    /\ LET identityKey == ShiftedKey
           result == parseKey(identityKey, UNDEFINED)
       IN /\ identityKeys' = ShiftRest
          /\ taken' = Append(taken, identityKey.id)
          /\ IF identityKey.kind = "private"
             THEN /\ SubmitKey(identityKey)
                  /\ NoPassphraseLoop
             ELSE IF identityKey.kind = "absent"
             THEN /\ Deliver(Callback("NEXT_AUTH", 0, ""))
                  /\ NoPassphraseLoop
                  /\ UNCHANGED submittedKeys
             ELSE IF result = NeedsPassphrase /\ PassphraseLoop(result, PassphraseRetryCount)
             THEN /\ pc' = "passphrase"
                  /\ curKey' = identityKey
                  /\ passphraseRetryCount' = PassphraseRetryCount
                  /\ passphrasePrompts' = 1
                  /\ UNCHANGED << lastCallback, submittedKeys >>
             ELSE IF IsError(result)
             THEN /\ Deliver(Callback("NEXT_AUTH", 0, ""))
                  /\ NoPassphraseLoop
                  /\ UNCHANGED submittedKeys
             ELSE /\ SubmitKey(identityKey)
                  /\ NoPassphraseLoop
    /\ NoKbdRound
    /\ NoInput
    /\ UNCHANGED << passwordRetryCount, keyboardRetryCount, passwordPrompts,
                    passwordSubmits, kbdSubmits, kbdCancelled >>

\* one iteration of the passphrase loop, lines 142-165: the user answers
\* the prompt that is showing
PassphraseInput(passphrase) ==
    /\ pc = "passphrase"
    /\ lastInput' = passphrase
    /\ IF ~Truthy(passphrase)
       THEN /\ Deliver(Callback("NEXT_AUTH", 0, ""))
            /\ UNCHANGED << passphraseRetryCount, passphrasePrompts, submittedKeys >>
       ELSE LET result == parseKey(curKey, passphrase)
            IN /\ passphraseRetryCount' = passphraseRetryCount - 1
               /\ IF PassphraseLoop(result, passphraseRetryCount')
                  THEN /\ passphrasePrompts' = passphrasePrompts + 1
                       /\ UNCHANGED << pc, lastCallback, submittedKeys >>
                  ELSE IF IsError(result)
                  THEN /\ Deliver(Callback("NEXT_AUTH", 0, ""))
                       /\ UNCHANGED << passphrasePrompts, submittedKeys >>
                  ELSE /\ SubmitKey(curKey)
                       /\ UNCHANGED passphrasePrompts
    /\ UNCHANGED << publickeyOffered, identityKeys, passwordRetryCount, keyboardRetryCount, branch,
                    methodsLeft, curKey, taken, passwordPrompts, passwordSubmits,
                    kbdSubmits, kbdCancelled, kbdRoundVars >>

\* lines 166-170: the password prompt is shown
HandlerPassword(m) ==
    /\ Invoke(m)
    /\ ~NoMethods(m)
    /\ ~PublicKeyBranch(m)
    /\ PasswordBranch(m)
    /\ branch' = "password"
    /\ pc' = "password"
    /\ passwordPrompts' = passwordPrompts + 1
    /\ NoPassphraseLoop
    /\ NoKbdRound
    /\ NoInput
    /\ UNCHANGED << identityKeys, passwordRetryCount, keyboardRetryCount, lastCallback,
                    taken, submittedKeys, passwordSubmits, kbdSubmits,
                    kbdCancelled >>

\* passwordRetryCount--
PasswordBudgetAfterPrompt == passwordRetryCount - 1

\* a handler that moves on to the next method when the prompt is cancelled
PasswordCallback_NextOnCancel(password) ==
    IF Truthy(password) THEN Callback("password", 0, password)
    ELSE Callback("NEXT_AUTH", 0, "")

\* callback(password ? {type: 'password', ...} : END_AUTH)
PasswordCallback(password) ==
    IF Truthy(password) THEN Callback("password", 0, password)
    ELSE Callback("END_AUTH", 0, "")

\* lines 171-179: the user answers the password prompt
PasswordInput(password) ==
    /\ pc = "password"
    /\ lastInput' = password
    /\ passwordRetryCount' = PasswordBudgetAfterPrompt
    /\ Deliver(PasswordCallback(password))
    /\ passwordSubmits' = IF lastCallback'.type = "password" THEN passwordSubmits + 1
                          ELSE passwordSubmits
    /\ UNCHANGED << publickeyOffered, identityKeys, keyboardRetryCount, branch, methodsLeft, curKey,
                    passphraseRetryCount, taken, submittedKeys, passwordPrompts,
                    passphrasePrompts, kbdSubmits, kbdCancelled, kbdRoundVars >>

\* lines 181-202: the keyboard-interactive request is submitted
HandlerKeyboard(m) ==
    /\ Invoke(m)
    /\ ~NoMethods(m)
    /\ ~PublicKeyBranch(m)
    /\ ~PasswordBranch(m)
    /\ KeyboardBranch(m)
    /\ branch' = "keyboard-interactive"
    /\ Deliver(Callback("keyboard-interactive", 0, ""))
    /\ kbdSubmits < MaxKbdSubmits
    /\ kbdSubmits' = kbdSubmits + 1
    /\ NoPassphraseLoop
    /\ NoKbdRound
    /\ NoInput
    /\ UNCHANGED << identityKeys, passwordRetryCount, keyboardRetryCount,
                    taken, submittedKeys, passwordPrompts, passwordSubmits,
                    kbdCancelled >>

\* line 204
HandlerEnd(m) ==
    /\ Invoke(m)
    /\ ~NoMethods(m)
    /\ ~PublicKeyBranch(m)
    /\ ~PasswordBranch(m)
    /\ ~KeyboardBranch(m)
    /\ branch' = "end"
    /\ Deliver(Callback("END_AUTH", 0, ""))
    /\ NoPassphraseLoop
    /\ NoKbdRound
    /\ NoInput
    /\ UNCHANGED << identityKeys, passwordRetryCount, keyboardRetryCount,
                    taken, submittedKeys, passwordPrompts, passwordSubmits,
                    kbdSubmits, kbdCancelled >>

\* keyboardRetryCount--; finish(responses)
Finish(budget, collected) ==
    /\ keyboardRetryCount' = budget - 1
    /\ finished' = collected
    /\ pc' = "submitted"

\* the server answers a keyboard-interactive request with an info request of
\* n prompts: ssh2 calls prompt(name, instructions, lang, prompts, finish);
\* lines 185-191 up to the first prompt shown
KbdInfoRequest(n) ==
    /\ pc = "submitted"
    /\ lastCallback.type = "keyboard-interactive"
    /\ keyboardRetryCount > 0 - MaxOverdraw
    /\ kbdPrompts' = n
    /\ responses' = << >>
    /\ kbdAnswers' = << >>
    /\ IF n = 0
       THEN /\ Finish(keyboardRetryCount, << >>)
            /\ kbdIndex' = 0
       ELSE /\ pc' = "kbdprompt"
            /\ kbdIndex' = 1
            /\ UNCHANGED << keyboardRetryCount, finished >>
    /\ UNCHANGED << publickeyOffered, identityKeys, passwordRetryCount, branch, methodsLeft, lastCallback,
                    curKey, passphraseRetryCount, lastInput, taken, submittedKeys,
                    passwordPrompts, passwordSubmits, passphrasePrompts, kbdSubmits,
                    kbdCancelled >>

\* a cancelled prompt that leaves the budget as it is
BudgetOnCancel_Kept == keyboardRetryCount

\* a cancelled prompt that fills the budget up again
BudgetOnCancel_Refill == PassphraseRetryCount + 1

\* keyboardRetryCount = 0, on a cancelled prompt
BudgetOnCancel == 0

\* lines 192-199: the user answers the prompt that is showing
KbdInput(response) ==
    /\ pc = "kbdprompt"
    /\ lastInput' = response
    /\ kbdAnswers' = Append(kbdAnswers, response)
    /\ IF response = UNDEFINED
       THEN /\ Finish(BudgetOnCancel, responses)
            /\ kbdCancelled' = TRUE
            /\ UNCHANGED << responses, kbdIndex >>
       ELSE /\ responses' = Append(responses, response)
            /\ UNCHANGED kbdCancelled
            /\ IF kbdIndex < kbdPrompts
               THEN /\ kbdIndex' = kbdIndex + 1
                    /\ UNCHANGED << pc, keyboardRetryCount, finished >>
               ELSE /\ Finish(keyboardRetryCount, responses')
                    /\ UNCHANGED kbdIndex
    /\ UNCHANGED << publickeyOffered, identityKeys, passwordRetryCount, branch, methodsLeft, lastCallback,
                    curKey, passphraseRetryCount, kbdPrompts, taken, submittedKeys,
                    passwordPrompts, passwordSubmits, passphrasePrompts, kbdSubmits >>

\* the server accepts the request: ssh2 emits 'ready' (lines 91-98)
ServerAccept ==
    /\ pc = "submitted"
    /\ pc' = "ready"
    /\ UNCHANGED << publickeyOffered, identityKeys, passwordRetryCount, keyboardRetryCount, branch,
                    methodsLeft, lastCallback, curKey, passphraseRetryCount, lastInput,
                    taken, submittedKeys, passwordPrompts, passwordSubmits,
                    passphrasePrompts, kbdSubmits, kbdCancelled, kbdRoundVars >>

\* the server refuses the request: ssh2 will call the handler again (line 104);
\* the request, its prompt callback and the invocation that made it are over
ServerReject ==
    /\ pc = "submitted"
    /\ pc' = "await"
    /\ lastCallback' = Callback("rejected", 0, "")
    /\ branch' = "rejected"
    /\ methodsLeft' = NULL
    /\ NoPassphraseLoop
    /\ NoKbdRound
    /\ NoInput
    /\ UNCHANGED << publickeyOffered, identityKeys, passwordRetryCount, keyboardRetryCount,
                    taken, submittedKeys, passwordPrompts, passwordSubmits,
                    kbdSubmits, kbdCancelled >>

(***************************************************************************)
(* RemoteSetupService.retry                                                *)
(***************************************************************************)
\* a RemoteExecResult
ExecResult(out, err) == [stdout |-> out, stderr |-> err]
Empty == ExecResult("", "")
ExecResults == { ExecResult(out, err) : out \in {"", "out"}, err \in {"", "err"} }

\* times = 20
DefaultRetryTimes == 20

\* an action whose attempts return nothing before attempt `first`, return
\* `at` in attempt `first` and `later` in every attempt after it
Attempts(first, at, later) ==
    [i \in 1..(DefaultRetryTimes + MaxRetryTimes + 2) |->
        IF i < first THEN Empty ELSE IF i = first THEN at ELSE later]

\* a loop that runs once more when times has reached zero
RetryContinue_OffByOne(times) == times >= 0

\* while (times-- > 0)
RetryContinue(times) == times > 0

\* if (result.stderr || result.stdout)
HasOutput(result) == result.stderr # "" \/ result.stdout # ""

\* the loop of retry: `calls` attempts were made, `result` is the last result
RECURSIVE retryLoop(_, _, _, _)
retryLoop(action, times, result, calls) ==
    IF RetryContinue(times)
    THEN LET r == action[calls + 1]
         IN IF HasOutput(r) THEN [result |-> r, calls |-> calls + 1]
            ELSE retryLoop(action, times - 1, r, calls + 1)
    ELSE [result |-> result, calls |-> calls]

\* retry(action, times = 20)
retry(action, times) == retryLoop(action, times, Empty, 0)

NotReturned == [result |-> Empty, calls |-> 0 - 1]

RetryIdle ==
    /\ rAction = << >>
    /\ rTimes = 0
    /\ rPc = "off"
    /\ rReturn = NotReturned

RetryInit ==
    /\ rAction \in { Attempts(first, at, later) :
                        first \in 1..(MaxRetryTimes + 2) \cup {DefaultRetryTimes, DefaultRetryTimes + 1},
                        at \in ExecResults, later \in ExecResults }
    /\ rTimes \in 0..MaxRetryTimes \cup {DefaultRetryTimes}
    /\ rPc = "call"
    /\ rReturn = NotReturned

\* one call of retry
RetryCall ==
    /\ rPc = "call"
    /\ rReturn' = retry(rAction, rTimes)
    /\ rPc' = "returned"
    /\ UNCHANGED << rAction, rTimes >>

(***************************************************************************)
(* RemoteExpressProxyContribution: the router stack                        *)
(***************************************************************************)
Range(seq) == { seq[i] : i \in 1..Len(seq) }

\* the value a position callback returns for a layer it does not select
NoPosition == 0 - 1

\* r => r.name === 'serveStatic' ? index : undefined
AfterStatic(index, layer) == IF layer = "serveStatic" THEN index ELSE NoPosition

\* a splice that puts the layer in front of the whole stack
Splice_Front(stack, start, router) == << router >> \o stack

\* routerStack.splice(start, 0, router): a start beyond the end is the end
Splice(stack, start, router) ==
    LET at == IF start > Len(stack) THEN Len(stack) ELSE start
    IN SubSeq(stack, 1, at) \o << router >> \o SubSeq(stack, at + 1, Len(stack))

\* the loop of spliceRouter over the stack without its last layer: indices
\* 0 .. length - 2 are looked at, the first selected layer decides the place
SpliceHits(rest, index) ==
    { i \in 0..(Len(rest) - 2) : AfterStatic(index, rest[i + 1]) # NoPosition }

\* spliceRouter(app, position): the layer added last is taken off the stack
\* and put back after the first selected layer; a stack without a selected
\* layer stays without the layer taken off
spliceRouter(stack, index) ==
    IF Len(stack) = 0 THEN stack
    ELSE LET router == stack[Len(stack)]
             rest == SubSeq(stack, 1, Len(stack) - 1)
             hits == SpliceHits(rest, index)
         IN IF hits = {} THEN rest
            ELSE LET i == CHOOSE h \in hits : \A g \in hits : h <= g
                 IN Splice(rest, i + index + 1, router)

\* what spliceRouter returns: a Disposable for the layer it put back, or
\* Disposable.NULL
spliceHandle(stack, index) ==
    IF Len(stack) = 0 THEN "NULL"
    ELSE IF SpliceHits(SubSeq(stack, 1, Len(stack) - 1), index) = {} THEN "NULL"
    ELSE "layer"

\* routerStack.indexOf(router), counted from 0, -1 if absent
IndexOf(stack, router) ==
    IF router \in Range(stack)
    THEN (CHOOSE i \in 1..Len(stack) :
             stack[i] = router /\ \A j \in 1..(i - 1) : stack[j] # router) - 1
    ELSE 0 - 1

\* routerStack.splice(start, 1): a negative start counts from the end
SpliceOut(stack, start) ==
    LET at == IF start < 0 THEN (IF Len(stack) + start < 0 THEN 0 ELSE Len(stack) + start)
              ELSE start
    IN IF at >= Len(stack) THEN stack
       ELSE SubSeq(stack, 1, at) \o SubSeq(stack, at + 2, Len(stack))

\* a Disposable that leaves the layer in the stack
DisposeProxyRouter_Keep(stack, handle) == stack

\* proxyRouter.dispose(): the Disposable of spliceRouter takes the layer out
\* at indexOf(router); Disposable.NULL does nothing
DisposeProxyRouter(stack, handle) ==
    IF handle = "layer" THEN SpliceOut(stack, IndexOf(stack, "handleProxy"))
    ELSE stack

\* configure(app): the status route is added and spliced in at position 0
configure(stack) == spliceRouter(Append(stack, "status"), 0)

\* setupProxyRouter(remote, server): app.use(handleProxy), spliced in at 1
setupProxyRouter(stack) == spliceRouter(Append(stack, "handleProxy"), 1)

\* the stacks the backend application has built when configure runs
BaseStacks ==
    { << "query", "expressInit", "serveStatic", "jsonParser" >>,
      << "query", "expressInit", "serveStatic", "jsonParser", "router" >>,
      << "serveStatic", "query", "expressInit" >>,
      << "query", "expressInit", "serveStatic" >>,
      << "query", "expressInit" >> }

(***************************************************************************)
(* RemoteConnectionService and RemoteProxyServerProvider                   *)
(***************************************************************************)
\* getConnectionId(): the id of the session being established
SessionId == "s1"

\* register(connection)
register(reg, id) == reg \cup {id}

\* getProxyServer(callback): a listening server for the session
getProxyServer(srv, id) == srv \cup {id}

\* a handle whose disposal puts back an entry that is already gone
unregister_Toggle(reg, id) == IF id \in reg THEN reg \ {id} ELSE reg \cup {id}

\* registration.dispose(): the entry of the connection is removed
unregister(reg, id) == reg \ {id}

\* getConnection(id) returns the connection
getConnection(reg, id) == id \in reg

\* server.close()
close(srv, id) == srv \ {id}

(***************************************************************************)
(* RemoteSetupService.setup and establishConnection                        *)
(***************************************************************************)
NoPlatform == "<none>"

\* what `uname -s` prints: on stdout for the systems that have it, on stderr
\* for the shells that do not know the command
UnameResults ==
    { ExecResult("Linux", ""), ExecResult("Darwin", ""),
      ExecResult("MINGW64_NT-10.0", ""), ExecResult("windows32", ""),
      ExecResult("", "uname: not recognized"), ExecResult("FreeBSD", ""),
      ExecResult("Linux", "stty: not a tty") }

\* String.prototype.includes on the outputs above
Includes(text, part) ==
    \/ text = part
    \/ text = "MINGW64_NT-10.0" /\ part = "MINGW64"

\* what retry hands back for a command the remote answers with `response`:
\* the response, when one of the 20 attempts gets it through, and the empty
\* result, when every attempt comes back empty
Answers(response) ==
    { retry(Attempts(first, response, response), DefaultRetryTimes).result :
        first \in {1, DefaultRetryTimes, DefaultRetryTimes + 1} }

\* a detection that falls back to linux instead of throwing
detectRemotePlatform_DefaultLinux(result) ==
    IF result.stderr # "" THEN "windows"
    ELSE IF result.stdout # "" /\ (Includes(result.stdout, "windows32")
                                     \/ Includes(result.stdout, "MINGW64"))
         THEN "windows"
    ELSE IF result.stdout # "" /\ Includes(result.stdout, "Darwin") THEN "darwin"
    ELSE "linux"

\* the classification of detectRemotePlatform; NoPlatform stands for the throw
detectRemotePlatform(result) ==
    IF result.stderr # "" THEN "windows"
    ELSE IF result.stdout # "" /\ (Includes(result.stdout, "windows32")
                                     \/ Includes(result.stdout, "MINGW64"))
         THEN "windows"
    ELSE IF result.stdout # "" /\ Includes(result.stdout, "Linux") THEN "linux"
    ELSE IF result.stdout # "" /\ Includes(result.stdout, "Darwin") THEN "darwin"
    ELSE NoPlatform

\* what the remote shell answers to `cd "<path>";echo "Success"`: for a
\* directory that exists the echo alone; for one that does not, the error of
\* cd, followed by the echo in a shell that goes on after a failed command
CdResults(exists) ==
    IF exists THEN { ExecResult("Success", "") }
    ELSE { ExecResult("Success", "cd: no such directory"),
           ExecResult("", "cd: no such directory") }

\* return Boolean(cdResult.stdout)
DirExists(cdResult) == cdResult.stdout # ""

\* what the remote shell answers to `mkdir -p "<path>";echo "Success"`
MkdirResults ==
    { ExecResult("Success", ""), ExecResult("Success", "mkdir: cannot create"),
      ExecResult("", "mkdir: cannot create") }

\* what `tar -xf` prints
TarResults == { ExecResult("", ""), ExecResult("", "tar: error") }

\* lines of the backend's stdout, and the two that match localAddressRegex
ListeningLines == { "listening on http://localhost:3000",
                    "listening on http://localhost:53211" }

\* match[1] of /listening on http:\/\/localhost:(\d+)/
Capture(line) ==
    CASE line = "listening on http://localhost:3000" -> "3000"
      [] line = "listening on http://localhost:53211" -> "53211"

\* Number(match[1])
Number(digits) ==
    CASE digits = "3000" -> 3000
      [] digits = "53211" -> 53211

Ports == { Number(Capture(line)) : line \in ListeningLines }

\* localAddressRegex.test(stdout), stdout being the lines received
RegexTest(text) == \E i \in 1..Len(text) : text[i] \in ListeningLines

\* a search that returns the last match
RegexExec_LastMatch(text) ==
    text[CHOOSE i \in 1..Len(text) :
              /\ text[i] \in ListeningLines
              /\ \A j \in (i + 1)..Len(text) : text[j] \notin ListeningLines]

\* localAddressRegex.exec(stdout): the first match
RegexExec(text) ==
    text[CHOOSE i \in 1..Len(text) :
              /\ text[i] \in ListeningLines
              /\ \A j \in 1..(i - 1) : text[j] \notin ListeningLines]

NoLaunch == [stdout |-> << >>, stderr |-> "<not launched>"]

\* what execPartial resolves with for the launch command: with the stdout up
\* to the first line that matches, which a backend in place may print, or
\* with what was received when the channel closed
LaunchResults(inPlace) ==
    { [stdout |-> out, stderr |-> err] :
        out \in { << >>, << "root INFO" >> }, err \in { "", "node: not found" } }
    \cup (IF inPlace
          THEN { [stdout |-> out, stderr |-> err] :
                   out \in { << "listening on http://localhost:3000" >>,
                             << "root INFO", "listening on http://localhost:53211" >>,
                             << "listening on http://localhost:3000",
                                "listening on http://localhost:53211" >> },
                   err \in { "", "(node) warning" } }
          ELSE {})

Errors == { "auth", "transport", "detect", "mkdir", "download", "unzip",
            "launch" }

SetupIdle ==
    /\ ePc = "off"
    /\ error = "none"
    /\ message = << >>
    /\ unameResult = Empty
    /\ remotePort = 0
    /\ platform = NoPlatform
    /\ nodeDirExists = FALSE
    /\ libDirExists = FALSE
    /\ launchResult = NoLaunch
    /\ registry = {}
    /\ servers = {}
    /\ routerStack = << >>
    /\ disconnectHandler = FALSE
    /\ proxyRouter = "none"
    /\ nodeDir = FALSE
    /\ libDir = FALSE
    /\ nodeCached = FALSE
    /\ dirsAtStart = << FALSE, FALSE >>
    /\ downloads = 0
    /\ copies = 0
    /\ extractions = 0
    /\ launches = 0

\* establishConnection has been called: the client is connecting, the backend
\* application is configured, the remote is in any state of provisioning
SetupInit ==
    /\ ePc = "ssh"
    /\ error = "none"
    /\ message = << >>
    /\ unameResult = Empty
    /\ remotePort = 0
    /\ platform = NoPlatform
    /\ nodeDirExists = FALSE
    /\ libDirExists = FALSE
    /\ launchResult = NoLaunch
    /\ registry = {}
    /\ servers = {}
    /\ routerStack \in { configure(base) : base \in BaseStacks }
    /\ disconnectHandler = FALSE
    /\ proxyRouter = "none"
    /\ nodeDir \in BOOLEAN
    /\ libDir \in BOOLEAN
    /\ nodeCached \in BOOLEAN
    /\ dirsAtStart = << nodeDir, libDir >>
    /\ downloads = 0
    /\ copies = 0
    /\ extractions = 0
    /\ launches = 0

sessionVars == << registry, servers, routerStack, disconnectHandler, proxyRouter >>
remoteVars == << nodeDir, libDir, nodeCached, dirsAtStart >>
workVars == << downloads, copies, extractions, launches >>
localVars == << remotePort, platform, unameResult, nodeDirExists, libDirExists,
               launchResult >>

\* an await of establishConnection rejects: nothing after it runs
Throw(err, msg) ==
    /\ ePc' = "failed"
    /\ error' = err
    /\ message' = msg

\* the positions at which a command or a copy is awaited on the connection
ExecSteps == { "detect", "home", "mkdir", "nodeExists", "copyNode", "unzipNode",
               "libExists", "copyLib", "unzipLib", "start" }

\* a connection whose port field has no initial value
NewConnectionPort_Unset == 0 - 1

\* remotePort = 0, the field initialiser of RemoteSSHConnection
NewConnectionPort == 0

\* 'ready': the connection object exists, with remotePort = 0, and setup begins
SshReady ==
    /\ ePc = "ssh"
    /\ ePc' = "detect"
    /\ remotePort' = NewConnectionPort
    /\ UNCHANGED << error, message, platform, unameResult, nodeDirExists,
                    libDirExists, launchResult, sessionVars, remoteVars, workVars >>

\* 'error': authentication or the transport failed
SshError ==
    /\ ePc = "ssh"
    /\ Throw("auth", << "All configured authentication methods failed" >>)
    /\ UNCHANGED << localVars, sessionVars, remoteVars, workVars >>

\* client.exec or fastPut reports an error: the awaited promise rejects
TransportError ==
    /\ ePc \in ExecSteps
    /\ Throw("transport", << "Unable to exec" >>)
    /\ UNCHANGED << localVars, sessionVars, remoteVars, workVars >>

\* const platform = await this.detectRemotePlatform(connection)
DetectPlatform(result) ==
    /\ ePc = "detect"
    /\ unameResult' = result
    /\ platform' = detectRemotePlatform(result)
    /\ IF platform' = NoPlatform
       THEN Throw("detect", << "Failed to identify remote system: ",
                               result.stdout, result.stderr >>)
       ELSE ePc' = "home" /\ UNCHANGED << error, message, message >>
    /\ UNCHANGED << remotePort, nodeDirExists, libDirExists, launchResult,
                    sessionVars, remoteVars, workVars >>

\* const remoteHome = await this.getRemoteHomeDirectory(connection, platform)
HomeDirectory ==
    /\ ePc = "home"
    /\ ePc' = "mkdir"
    /\ UNCHANGED << error, message, localVars, sessionVars, remoteVars, workVars >>

\* await this.mkdirRemote(connection, platform, applicationDirectory)
MkdirRemote(result) ==
    /\ ePc = "mkdir"
    /\ IF result.stderr # ""
       THEN Throw("mkdir", << "Failed to create directory: ", result.stderr >>)
       ELSE ePc' = "nodeExists" /\ UNCHANGED << error, message, message >>
    /\ UNCHANGED << localVars, sessionVars, remoteVars, workVars >>

\* const nodeDirExists = await this.dirExistsRemote(connection, remoteNodeDirectory)
NodeDirExists(cdResult) ==
    /\ ePc = "nodeExists"
    /\ nodeDirExists' = DirExists(cdResult)
    /\ ePc' = IF nodeDirExists' THEN "libExists" ELSE "downloadNode"
    /\ UNCHANGED << error, message, remotePort, platform, unameResult,
                    libDirExists, launchResult,
                    sessionVars, remoteVars, workVars >>

\* const nodeArchive = await this.downloadNode(nodeFileName): the archive is
\* requested unless it is in the local tmpdir; the request may fail
DownloadNode(ok) ==
    /\ ePc = "downloadNode"
    /\ IF nodeCached
       THEN /\ ok
            /\ ePc' = "copyNode"
            /\ UNCHANGED << error, message, downloads, nodeCached >>
       ELSE /\ downloads' = downloads + 1
            /\ nodeCached' = ok
            /\ IF ok THEN ePc' = "copyNode" /\ UNCHANGED << error, message, message >>
                     ELSE Throw("download", << "Request failed" >>)
    /\ UNCHANGED << localVars, sessionVars, nodeDir, libDir, dirsAtStart,
                    copies, extractions, launches >>

\* await connection.copy(nodeArchive, remoteNodeZip)
CopyNode ==
    /\ ePc = "copyNode"
    /\ copies' = copies + 1
    /\ ePc' = "unzipNode"
    /\ UNCHANGED << error, message, localVars, sessionVars, remoteVars,
                    downloads, extractions, launches >>

\* await this.unzipRemote(connection, remoteNodeZip, applicationDirectory)
UnzipNode(result) ==
    /\ ePc = "unzipNode"
    /\ extractions' = extractions + 1
    /\ IF result.stderr # ""
       THEN Throw("unzip", << "Failed to unzip: ", result.stderr >>) /\ UNCHANGED nodeDir
       ELSE ePc' = "libExists" /\ nodeDir' = TRUE /\ UNCHANGED << error, message, message >>
    /\ UNCHANGED << localVars, sessionVars, libDir, nodeCached, dirsAtStart,
                    downloads, copies, launches >>

\* const libDirExists = await this.dirExistsRemote(connection, libDir)
LibDirExists(cdResult) ==
    /\ ePc = "libExists"
    /\ libDirExists' = DirExists(cdResult)
    /\ ePc' = IF libDirExists' THEN "start" ELSE "copyLib"
    /\ UNCHANGED << error, message, remotePort, platform, unameResult,
                    nodeDirExists, launchResult,
                    sessionVars, remoteVars, workVars >>

\* await this.copyService.copyToRemote(connection, platform, applicationZipFile)
CopyLib ==
    /\ ePc = "copyLib"
    /\ copies' = copies + 1
    /\ ePc' = "unzipLib"
    /\ UNCHANGED << error, message, localVars, sessionVars, remoteVars,
                    downloads, extractions, launches >>

\* await this.unzipRemote(connection, applicationZipFile, applicationDirectory)
UnzipLib(result) ==
    /\ ePc = "unzipLib"
    /\ extractions' = extractions + 1
    /\ IF result.stderr # ""
       THEN Throw("unzip", << "Failed to unzip: ", result.stderr >>) /\ UNCHANGED libDir
       ELSE ePc' = "start" /\ libDir' = TRUE /\ UNCHANGED << error, message, message >>
    /\ UNCHANGED << localVars, sessionVars, nodeDir, nodeCached, dirsAtStart,
                    downloads, copies, launches >>

\* what startApplication returns; Thrown stands for its throw
Thrown == 0 - 1

\* a launch step that reports port 0 when the pattern was not found
startApplication_ZeroOnMiss(result) ==
    IF RegexTest(result.stdout) THEN Number(Capture(RegexExec(result.stdout)))
    ELSE 0

\* const match = localAddressRegex.exec(result.stdout);
\* if (!match) throw ...; else return Number(match[1])
startApplication(result) ==
    IF RegexTest(result.stdout) THEN Number(Capture(RegexExec(result.stdout)))
    ELSE Thrown

\* const port = await this.startApplication(...); connection.remotePort = port;
\* setup returns, and establishConnection registers the connection and asks
\* for the proxy server
StartApplication(result) ==
    /\ ePc = "start"
    /\ launches' = launches + 1
    /\ launchResult' = result
    /\ LET port == startApplication(result)
       IN IF port = Thrown
          THEN Throw("launch", << "Could not start remote system: ", result.stderr >>) /\ UNCHANGED << remotePort, registry >>
          ELSE /\ remotePort' = port
               /\ registry' = register(registry, SessionId)
               /\ ePc' = "proxyServer"
               /\ UNCHANGED << error, message, message >>
    /\ UNCHANGED << platform, unameResult, nodeDirExists, libDirExists, servers,
                    routerStack, proxyRouter,
                    disconnectHandler, remoteVars, downloads, copies, extractions >>

\* the proxy server listens: the proxy handler is put into the router, the
\* disconnect listener is installed and establishConnection returns the id
ProxyServerReady ==
    /\ ePc = "proxyServer"
    /\ servers' = getProxyServer(servers, SessionId)
    /\ routerStack' = setupProxyRouter(routerStack)
    /\ proxyRouter' = spliceHandle(Append(routerStack, "handleProxy"), 1)
    /\ disconnectHandler' = TRUE
    /\ ePc' = "done"
    /\ UNCHANGED << error, message, registry, localVars, remoteVars, workVars >>


\* the client is connected: nothing has destroyed it
Connected == destroys = 0

\* the client emits 'end' for the connection of establishConnection: the
\* emitter fires, the listener of the constructor disposes the connection
\* and the listener of establishConnection, if installed, closes the server
\* and disposes the proxy router and the registration
SessionEnd ==
    /\ ePc \notin {"off", "ssh"}
    /\ error # "auth"
    /\ ends < MaxEnds
    /\ ends' = ends + 1
    /\ emitted' = emitted + 1
    /\ destroys' = destroys + 1
    /\ IF disconnectHandler
       THEN /\ servers' = close(servers, SessionId)
            /\ routerStack' = DisposeProxyRouter(routerStack, proxyRouter)
            /\ registry' = unregister(registry, SessionId)
       ELSE UNCHANGED << servers, routerStack, registry >>
    /\ UNCHANGED << ePc, error, message, localVars, disconnectHandler, proxyRouter,
                    remoteVars, workVars, closedCalls, execVars, forwardVars >>

\* the handle register() returned for the connection is disposed by another
\* holder than the disconnect listener
DisposeRegistration ==
    /\ ePc \in {"proxyServer", "done"}
    /\ released < MaxDisposes
    /\ released' = released + 1
    /\ registry' = unregister(registry, SessionId)
    /\ UNCHANGED << ePc, error, message, localVars, servers, routerStack,
                    disconnectHandler, proxyRouter, remoteVars, workVars >>

(***************************************************************************)
(* RemoteSSHConnection: exec and execPartial                               *)
(***************************************************************************)
\* what a 'data' event carries: "L" is a chunk the launch pattern matches
Chunks == {"a", "L"}

\* the testers: the launch pattern on stdout, anything on stderr, exactly one
\* chunk received (true once and false again later), and never
Testers == {"listening", "stderr", "single", "never"}
NoTester == "<none>"

\* tester(stdout, stderr)
Test(t, out, err) ==
    CASE t = "listening" -> \E i \in 1..Len(out) : out[i] = "L"
      [] t = "stderr" -> Len(err) > 0
      [] t = "single" -> Len(out) + Len(err) = 1
      [] OTHER -> FALSE

NoResult == [stdout |-> << "<unresolved>" >>, stderr |-> << >>]
NoArgs == << << "<not called>" >>, << >> >>

ExecIdle ==
    /\ xKind = "none"
    /\ tester = NoTester
    /\ channel = "none"
    /\ deferred = "none"
    /\ stdout = << >>
    /\ stderr = << >>
    /\ resolution = NoResult
    /\ wireOut = << >>
    /\ wireErr = << >>
    /\ testerCalls = 0
    /\ testerArgs = NoArgs
    /\ trueSeen = FALSE
    /\ resolveCalls = 0

\* a resolve that hands over stdout and forgets stderr
Resolve_StdoutOnly(out, err) ==
    /\ resolveCalls' = resolveCalls + 1
    /\ deferred' = IF deferred = "unresolved" THEN "resolved" ELSE deferred
    /\ resolution' = IF deferred = "unresolved"
                 THEN [stdout |-> out, stderr |-> << >>] ELSE resolution

\* deferred.resolve({ stdout, stderr }): only the first call settles it
Resolve(out, err) ==
    /\ resolveCalls' = resolveCalls + 1
    /\ deferred' = IF deferred = "unresolved" THEN "resolved" ELSE deferred
    /\ resolution' = IF deferred = "unresolved"
                 THEN [stdout |-> out, stderr |-> err] ELSE resolution

\* data handlers that go on after the promise is settled
Unresolved_Always(state) == TRUE

\* if (deferred.state === 'unresolved') of the data handlers of execPartial
Unresolved(state) == state = "unresolved"

\* a close handler that leaves the promise pending
CloseResolves_Never(state) == FALSE

\* if (deferred.state === 'unresolved') of the close handler of execPartial
CloseResolves(state) == state = "unresolved"

\* exec(cmd, args, options) or execPartial(cmd, tester, args, options) is
\* called: a deferred is made and client.exec is asked for a channel
ExecCall(kind, t) ==
    /\ xKind = "none"
    /\ xKind' = kind
    /\ tester' = t
    /\ channel' = "requested"
    /\ deferred' = "unresolved"
    /\ closedCalls' = IF emitted > 0 THEN closedCalls \cup {kind} ELSE closedCalls
    /\ UNCHANGED << stdout, stderr, resolution, wireOut, wireErr, testerCalls,
                    testerArgs, trueSeen, resolveCalls, ends, destroys, emitted,
                    forwardVars >>

\* if (err) return deferred.reject(err)
ExecError ==
    /\ channel = "requested"
    /\ channel' = "closed"
    /\ deferred' = "rejected"
    /\ UNCHANGED << xKind, tester, stdout, stderr, resolution, wireOut, wireErr,
                    testerCalls, testerArgs, trueSeen, resolveCalls, lifeVars,
                    forwardVars >>

\* the callback of client.exec gets the stream: the handlers are attached
ExecOpen ==
    /\ channel = "requested"
    /\ channel' = "open"
    /\ UNCHANGED << xKind, tester, deferred, stdout, stderr, resolution, wireOut,
                    wireErr, testerCalls, testerArgs, trueSeen, resolveCalls,
                    lifeVars, forwardVars >>

\* a 'data' handler of execPartial has appended to a buffer
AfterAppend(out, err) ==
    /\ stdout' = out
    /\ stderr' = err
    /\ testerCalls' = testerCalls + 1
    /\ testerArgs' = << out, err >>
    /\ IF Test(tester, out, err)
       THEN trueSeen' = TRUE /\ Resolve(out, err)
       ELSE UNCHANGED << trueSeen, resolveCalls, deferred, resolution >>

\* stream.on('data'): of exec (lines 288-289), of execPartial (lines 310-317)
StdoutData(chunk) ==
    /\ channel = "open"
    /\ Len(wireOut) + Len(wireErr) < MaxChunks
    /\ wireOut' = Append(wireOut, chunk)
    /\ IF xKind = "exec"
       THEN /\ stdout' = Append(stdout, chunk)
            /\ UNCHANGED << stderr, testerCalls, testerArgs, trueSeen,
                            resolveCalls, deferred, resolution >>
       ELSE IF Unresolved(deferred)
            THEN AfterAppend(Append(stdout, chunk), stderr)
            ELSE UNCHANGED << stdout, stderr, testerCalls, testerArgs, trueSeen,
                              resolveCalls, deferred, resolution >>
    /\ UNCHANGED << xKind, tester, channel, wireErr, lifeVars, forwardVars >>

\* stream.stderr.on('data'): of exec (lines 290-291), of execPartial (318-325)
StderrData(chunk) ==
    /\ channel = "open"
    /\ Len(wireOut) + Len(wireErr) < MaxChunks
    /\ wireErr' = Append(wireErr, chunk)
    /\ IF xKind = "exec"
       THEN /\ stderr' = Append(stderr, chunk)
            /\ UNCHANGED << stdout, testerCalls, testerArgs, trueSeen,
                            resolveCalls, deferred, resolution >>
       ELSE IF Unresolved(deferred)
            THEN AfterAppend(stdout, Append(stderr, chunk))
            ELSE UNCHANGED << stdout, stderr, testerCalls, testerArgs, trueSeen,
                              resolveCalls, deferred, resolution >>
    /\ UNCHANGED << xKind, tester, channel, wireOut, lifeVars, forwardVars >>

\* stream.on('close'): of exec (lines 286-287), of execPartial (306-309)
StreamClose ==
    /\ channel = "open"
    /\ channel' = "closed"
    /\ IF xKind = "exec" \/ CloseResolves(deferred)
       THEN Resolve(stdout, stderr)
       ELSE UNCHANGED << resolveCalls, deferred, resolution >>
    /\ UNCHANGED << xKind, tester, stdout, stderr, wireOut, wireErr, testerCalls,
                    testerArgs, trueSeen, lifeVars, forwardVars >>

(***************************************************************************)
(* RemoteSSHConnection: disconnect, dispose, copy and forwardOut           *)
(***************************************************************************)
Sockets == 1..MaxSockets

\* a connection just constructed on a client that is connected
ConnInit ==
    /\ ends = 0
    /\ destroys = 0
    /\ emitted = 0
    /\ closedCalls = {}
    /\ ExecIdle
    /\ copyState = "none"
    /\ forwards = [k \in Sockets |-> "none"]
    /\ piped = {}
    /\ debugLogs = 0

\* the variables of the connection while another part runs
ConnIdle ==
    /\ ends = 0
    /\ destroys = 0
    /\ emitted = 0
    /\ closedCalls = {}
    /\ ExecIdle
    /\ copyState = "off"
    /\ forwards = << >>
    /\ piped = {}
    /\ debugLogs = 0

\* this.client.on('end', () => this.onDidDisconnectEmitter.fire()), and the
\* listener of the constructor, () => this.dispose(), which the event runs
ClientEnd ==
    /\ ends < MaxEnds
    /\ ends' = ends + 1
    /\ emitted' = emitted + 1
    /\ destroys' = destroys + 1
    /\ UNCHANGED << closedCalls, execVars, forwardVars >>

\* dispose(), called from outside: this.client.destroy()
Dispose ==
    /\ destroys - emitted < MaxDisposes
    /\ destroys' = destroys + 1
    /\ UNCHANGED << ends, emitted, closedCalls, execVars, forwardVars >>

\* copy(localPath, remotePath, options): fastPut on the sftp client
CopyCall ==
    /\ copyState = "none"
    /\ copyState' = "pending"
    /\ closedCalls' = IF emitted > 0 THEN closedCalls \cup {"copy"} ELSE closedCalls
    /\ UNCHANGED << ends, destroys, emitted, execVars, forwards, piped, debugLogs >>

\* fastPut resolves or rejects
CopySettled(ok) ==
    /\ copyState = "pending"
    /\ copyState' = IF ok THEN "done" ELSE "failed"
    /\ UNCHANGED << lifeVars, execVars, forwards, piped, debugLogs >>

\* forwardOut(socket): this.client.forwardOut(..., '127.0.0.1', remotePort, cb)
ForwardOut(socket) ==
    /\ forwards[socket] = "none"
    /\ forwards' = [forwards EXCEPT ![socket] = "requested"]
    /\ closedCalls' = IF emitted > 0 THEN closedCalls \cup {"forwardOut"}
                      ELSE closedCalls
    /\ UNCHANGED << ends, destroys, emitted, execVars, copyState, piped, debugLogs >>

\* if (err) console.debug('Proxy message rejected', err)
ForwardRejected(socket) ==
    /\ forwards[socket] = "requested"
    /\ forwards' = [forwards EXCEPT ![socket] = "rejected"]
    /\ debugLogs' = debugLogs + 1
    /\ UNCHANGED << lifeVars, execVars, copyState, piped >>

\* a callback that pipes the stream to the socket only
Pipes_OneWay(socket) == { << socket, "stream to socket" >> }

\* stream.pipe(socket).pipe(stream)
Pipes(socket) == { << socket, "stream to socket" >>, << socket, "socket to stream" >> }

\* else stream.pipe(socket).pipe(stream)
ForwardAccepted(socket) ==
    /\ forwards[socket] = "requested"
    /\ forwards' = [forwards EXCEPT ![socket] = "piped"]
    /\ piped' = piped \cup Pipes(socket)
    /\ UNCHANGED << lifeVars, execVars, copyState, debugLogs >>


(***************************************************************************)
(* Several sessions on one backend application: the registry, the proxy   *)
(* servers and the router stack are shared, each session has its own      *)
(* proxy layer                                                             *)
(***************************************************************************)
\* the ids getConnectionId() hands out
SessionIds == << "s1", "s2", "s3", "s4" >>

Sessions == { SessionIds[i] : i \in 1..MaxSessions }

\* the sockets redirect is called for
Redirects == 1..MaxRedirects

\* const handleProxy = expressHttpProxy(...): the layer app.use adds for the
\* session remote.id; express names every such layer handleProxy
handleProxy(id) ==
    CASE id = "s1" -> "handleProxy s1"
      [] id = "s2" -> "handleProxy s2"
      [] id = "s3" -> "handleProxy s3"
      [] id = "s4" -> "handleProxy s4"

\* filter of a session's proxy layer accepting everything
Filter_Any(id, remoteId) == TRUE

\* filter: req => getCookies(req).remoteId === remote.id
Filter(id, remoteId) == remoteId = id

\* a Disposable of spliceRouter (or Disposable.NULL) is disposed: the layer
\* is taken out at indexOf(router)
DisposeRouter(stack, handle, router) ==
    IF handle = "layer" THEN SpliceOut(stack, IndexOf(stack, router))
    ELSE stack

\* the requests: method, path and the remoteId cookie (UNDEFINED: no cookie;
\* "s0" is the id of no session)
HttpMethods == {"GET", "POST"}
Paths == {"/remote/status", "/index.html", "/services"}
Cookies == Sessions \cup {UNDEFINED, "s0"}

\* app.get('/remote/status', ...): the route matches GET on that path
StatusRoute(method, path) == method = "GET" /\ path = "/remote/status"

\* serveStatic answers a GET for a file it has and calls next() otherwise
ServeStatic(method, path) == method = "GET" /\ path = "/index.html"

\* whether a layer of the stack answers the request or calls next()
Handles(layer, method, path, remoteId) ==
    \/ layer = "status" /\ StatusRoute(method, path)
    \/ layer = "serveStatic" /\ ServeStatic(method, path)
    \/ \E id \in Sessions : layer = handleProxy(id) /\ Filter(id, remoteId)

\* express walks the stack in order: the first layer that answers, or the
\* final handler when every layer has called next()
Dispatch(stack, method, path, remoteId) ==
    LET hits == { i \in 1..Len(stack) : Handles(stack[i], method, path, remoteId) }
    IN IF hits = {} THEN "finalhandler"
       ELSE stack[CHOOSE h \in hits : \A g \in hits : h <= g]

\* the handler of /remote/status: alive if the cookie is set and
\* getConnection finds a connection for it
StatusAlive(reg, remoteId) == Truthy(remoteId) /\ getConnection(reg, remoteId)

NoExchange == [ method |-> "none", path |-> "none", remoteId |-> UNDEFINED,
                by |-> "none", alive |-> FALSE, live |-> {}, known |-> {} ]

\* the variables of establishConnection's bootstrap, when none is running
BootstrapIdle ==
    /\ ePc = "off"
    /\ error = "none"
    /\ message = << >>
    /\ unameResult = Empty
    /\ remotePort = 0
    /\ platform = NoPlatform
    /\ nodeDirExists = FALSE
    /\ libDirExists = FALSE
    /\ launchResult = NoLaunch
    /\ disconnectHandler = FALSE
    /\ proxyRouter = "none"
    /\ nodeDir = FALSE
    /\ libDir = FALSE
    /\ nodeCached = FALSE
    /\ dirsAtStart = << FALSE, FALSE >>
    /\ downloads = 0
    /\ copies = 0
    /\ extractions = 0
    /\ launches = 0

bootstrapVars == << ePc, error, message, localVars, disconnectHandler, proxyRouter,
                    remoteVars, workVars >>

RouterIdle ==
    /\ stage = [ id \in Sessions |-> "off" ]
    /\ handles = [ id \in Sessions |-> "none" ]
    /\ ended = [ id \in Sessions |-> 0 ]
    /\ exchange = NoExchange

\* the backend application is configured, no session is established yet
RouterInit ==
    /\ BootstrapIdle
    /\ registry = {}
    /\ servers = {}
    /\ routerStack \in { configure(base) : base \in BaseStacks }
    /\ RouterIdle

\* the session is live: establishConnection has returned its id and its
\* client has not ended
Live(id) == stage[id] = "ready" /\ ended[id] = 0

\* establishConnection for the session id, bootstrap done: the connection is
\* registered and the proxy server is asked for
Register(id) ==
    /\ stage[id] = "off"
    /\ ended[id] = 0
    /\ stage' = [ stage EXCEPT ![id] = "registered" ]
    /\ registry' = register(registry, id)
    /\ exchange' = NoExchange
    /\ UNCHANGED << servers, routerStack, handles, ended, bootstrapVars >>

\* the proxy server of the session listens: its proxy layer is put into the
\* router, the disconnect listener is installed, the id is returned
ServerReady(id) ==
    /\ stage[id] = "registered"
    /\ stage' = [ stage EXCEPT ![id] = "ready" ]
    /\ servers' = getProxyServer(servers, id)
    /\ routerStack' = spliceRouter(Append(routerStack, handleProxy(id)), 1)
    /\ handles' = [ handles EXCEPT
                      ![id] = spliceHandle(Append(routerStack, handleProxy(id)), 1) ]
    /\ exchange' = NoExchange
    /\ UNCHANGED << registry, ended, bootstrapVars >>

\* the client of the session emits 'end': the listener of establishConnection,
\* if it is installed by now, closes the server and disposes the proxy router
\* and the registration
End(id) ==
    /\ stage[id] # "off"
    /\ ended[id] < MaxEnds
    /\ ended' = [ ended EXCEPT ![id] = @ + 1 ]
    /\ IF stage[id] = "ready"
       THEN /\ servers' = close(servers, id)
            /\ routerStack' = DisposeRouter(routerStack, handles[id], handleProxy(id))
            /\ registry' = unregister(registry, id)
       ELSE UNCHANGED << servers, routerStack, registry >>
    /\ exchange' = NoExchange
    /\ UNCHANGED << stage, handles, bootstrapVars >>

\* an HTTP request reaches the application
Request(method, path, remoteId) ==
    /\ exchange' = [ method |-> method, path |-> path, remoteId |-> remoteId,
                     by |-> Dispatch(routerStack, method, path, remoteId),
                     alive |-> StatusAlive(registry, remoteId),
                     live |-> { id \in Sessions : Live(id) },
                     known |-> registry ]
    /\ UNCHANGED << registry, servers, routerStack, stage, handles, ended,
                    bootstrapVars >>

(***************************************************************************)
(* RemoteRedirectContribution.redirect                                     *)
(***************************************************************************)
RedirectIdle ==
    /\ rdPc = [ c \in Redirects |-> "off" ]
    /\ rdCookie = [ c \in Redirects |-> UNDEFINED ]
    /\ proxySession = [ c \in Redirects |-> "none" ]
    /\ proxySocket = [ c \in Redirects |-> "none" ]
    /\ clientSocket = [ c \in Redirects |-> "none" ]
    /\ rdListeners = [ c \in Redirects |-> FALSE ]
    /\ relayed = [ c \in Redirects |-> << 0, 0 >> ]

WebIdle == RouterIdle /\ RedirectIdle /\ released = 0 /\ forwardedTo = {}

\* redirect(socket) is called for connected sockets; the cookie of a socket's
\* request is absent, names the session s1 or names no session; s1 is
\* registered or not
RedirectInit ==
    /\ BootstrapIdle
    /\ registry \in SUBSET {SessionId}
    /\ servers = registry
    /\ routerStack = << >>
    /\ RouterIdle
    /\ rdPc = [ c \in Redirects |-> "start" ]
    /\ rdCookie \in [ Redirects -> {UNDEFINED, SessionId, "s0"} ]
    /\ proxySession = [ c \in Redirects |-> "none" ]
    /\ proxySocket = [ c \in Redirects |-> "none" ]
    /\ clientSocket = [ c \in Redirects |-> "connected" ]
    /\ rdListeners = [ c \in Redirects |-> FALSE ]
    /\ relayed = [ c \in Redirects |-> << 0, 0 >> ]

\* sessionService.addTunnel({ remote }): resolves with a proxy session when
\* the registry holds the connection, rejects otherwise
addTunnel(reg, remote) == getConnection(reg, remote)

\* a catch block that reports success
Caught_True == "true"

\* catch { return false; }
Caught == "false"

\* redirect up to its await: no remoteId cookie returns false, otherwise the
\* tunnel is asked for
RedirectCall(c) ==
    /\ rdPc[c] = "start"
    /\ rdPc' = [ rdPc EXCEPT ![c] = IF ~Truthy(rdCookie[c]) THEN "false" ELSE "tunnel" ]
    /\ UNCHANGED << rdCookie, proxySession, proxySocket, clientSocket, rdListeners,
                    relayed, registry, servers >>

\* addTunnel resolves: the proxy socket is taken, the four listeners are
\* installed and redirect returns true
TunnelResolved(c) ==
    /\ rdPc[c] = "tunnel"
    /\ addTunnel(registry, rdCookie[c])
    /\ proxySession' = [ proxySession EXCEPT ![c] = "open" ]
    /\ proxySocket' = [ proxySocket EXCEPT ![c] = "open" ]
    /\ rdListeners' = [ rdListeners EXCEPT ![c] = TRUE ]
    /\ rdPc' = [ rdPc EXCEPT ![c] = "true" ]
    /\ UNCHANGED << rdCookie, clientSocket, relayed, registry, servers >>

\* addTunnel rejects: the catch block returns
TunnelRejected(c) ==
    /\ rdPc[c] = "tunnel"
    /\ ~addTunnel(registry, rdCookie[c])
    /\ rdPc' = [ rdPc EXCEPT ![c] = Caught ]
    /\ UNCHANGED << rdCookie, proxySession, proxySocket, clientSocket, rdListeners,
                    relayed, registry, servers >>

\* the client emits an event on its socket: socket.onAny hands it to the
\* proxy socket
ClientEvent(c) ==
    /\ clientSocket[c] = "connected"
    /\ rdListeners[c]
    /\ proxySocket[c] = "open"
    /\ relayed[c][1] < MaxEvents
    /\ relayed' = [ relayed EXCEPT ![c] = << @[1] + 1, @[2] >> ]
    /\ UNCHANGED << rdPc, rdCookie, proxySession, proxySocket, clientSocket,
                    rdListeners, registry, servers >>

\* the remote emits an event on the proxy socket: proxySocket.onAny hands it
\* to the client socket
ProxyEvent(c) ==
    /\ proxySocket[c] = "open"
    /\ rdListeners[c]
    /\ clientSocket[c] = "connected"
    /\ relayed[c][2] < MaxEvents
    /\ relayed' = [ relayed EXCEPT ![c] = << @[1], @[2] + 1 >> ]
    /\ UNCHANGED << rdPc, rdCookie, proxySession, proxySocket, clientSocket,
                    rdListeners, registry, servers >>

\* the client sockets whose 'disconnect' event finds the listener of redirect
\* installed
Listening(gone) == { c \in gone : rdListeners[c] }

\* the 'disconnect' event of the client sockets gone: each becomes
\* disconnected, and where the listener is installed it runs
\* proxySocket.close() and proxySession.dispose()
Disconnect(gone) ==
    /\ clientSocket' = [ c \in Redirects |->
                           IF c \in gone THEN "disconnected" ELSE clientSocket[c] ]
    /\ proxySocket' = [ c \in Redirects |->
                          IF c \in Listening(gone) THEN "closed" ELSE proxySocket[c] ]
    /\ proxySession' = [ c \in Redirects |->
                           IF c \in Listening(gone) THEN "disposed" ELSE proxySession[c] ]

\* the client socket disconnects
ClientDisconnect(c) ==
    /\ clientSocket[c] = "connected"
    /\ rdPc[c] # "start"
    /\ Disconnect({c})
    /\ UNCHANGED << rdPc, rdCookie, rdListeners, relayed, registry, servers >>

\* the session s1 disconnects: it leaves the registry, and every proxy
\* session open on it fires onDidRemoteDisconnect, whose listener runs
\* socket.disconnect(true)
RemoteDisconnect ==
    /\ SessionId \in registry
    /\ registry' = unregister(registry, SessionId)
    /\ servers' = close(servers, SessionId)
    /\ Disconnect({ c \in Redirects : /\ proxySession[c] = "open"
                                      /\ clientSocket[c] = "connected" })
    /\ UNCHANGED << rdPc, rdCookie, rdListeners, relayed >>

\* the proxy socket closes from the remote side: redirect has installed no
\* listener for that
ProxySocketClosed(c) ==
    /\ proxySocket[c] = "open"
    /\ proxySocket' = [ proxySocket EXCEPT ![c] = "closed" ]
    /\ UNCHANGED << rdPc, rdCookie, proxySession, clientSocket, rdListeners, relayed,
                    registry, servers >>

(***************************************************************************)
(* Specifications                                                          *)
(***************************************************************************)
InitAuth == AuthInit /\ RetryIdle /\ SetupIdle /\ ConnIdle /\ WebIdle

AuthNext ==
    \/ \E m \in MethodLists \cup {NULL} :
          \/ HandlerNone(m) /\ UNCHANGED << retryVars, setupVars, connVars, webVars >>
          \/ HandlerPublicKey(m) /\ UNCHANGED << retryVars, setupVars, connVars, webVars >>
          \/ HandlerPassword(m) /\ UNCHANGED << retryVars, setupVars, connVars, webVars >>
          \/ HandlerKeyboard(m) /\ UNCHANGED << retryVars, setupVars, connVars, webVars >>
          \/ HandlerEnd(m) /\ UNCHANGED << retryVars, setupVars, connVars, webVars >>
    \/ \E p \in PassphraseInputs :
          PassphraseInput(p) /\ UNCHANGED << retryVars, setupVars, connVars, webVars >>
    \/ \E p \in PasswordInputs :
          PasswordInput(p) /\ UNCHANGED << retryVars, setupVars, connVars, webVars >>
    \/ \E n \in 0..MaxPrompts :
          KbdInfoRequest(n) /\ UNCHANGED << retryVars, setupVars, connVars, webVars >>
    \/ \E r \in KbdInputs : KbdInput(r) /\ UNCHANGED << retryVars, setupVars, connVars, webVars >>
    \/ ServerAccept /\ UNCHANGED << retryVars, setupVars, connVars, webVars >>
    \/ ServerReject /\ UNCHANGED << retryVars, setupVars, connVars, webVars >>

SpecAuth == InitAuth /\ [][AuthNext]_vars

InitRetry == AuthIdle /\ RetryInit /\ SetupIdle /\ ConnIdle /\ WebIdle

RetryNext == RetryCall /\ UNCHANGED << authVars, setupVars, connVars, webVars >>

SpecRetry == InitRetry /\ [][RetryNext]_vars

\* the proxy server of the connection accepts a socket: its callback calls
\* remote.forwardOut(socket), which asks the client to forward to
\* 127.0.0.1:remotePort
ProxyConnection ==
    /\ SessionId \in servers
    /\ forwardedTo' = forwardedTo \cup { remotePort }
    /\ UNCHANGED << ePc, error, message, localVars, sessionVars, remoteVars,
                    workVars >>

InitSetup == AuthIdle /\ RetryIdle /\ SetupInit /\ ConnIdle /\ WebIdle

SetupNext ==
    \/ SshReady /\ UNCHANGED << authVars, retryVars, connVars, webVars >>
    \/ SshError /\ UNCHANGED << authVars, retryVars, connVars, webVars >>
    \/ TransportError /\ UNCHANGED << authVars, retryVars, connVars, webVars >>
    \/ \E u \in UnameResults : \E result \in Answers(u) :
          Connected /\ DetectPlatform(result) /\ UNCHANGED << authVars, retryVars, connVars, webVars >>
    \/ Connected /\ HomeDirectory /\ UNCHANGED << authVars, retryVars, connVars, webVars >>
    \/ \E m \in MkdirResults : \E result \in Answers(m) :
          Connected /\ MkdirRemote(result) /\ UNCHANGED << authVars, retryVars, connVars, webVars >>
    \/ \E c \in CdResults(nodeDir) : \E cdResult \in Answers(c) :
          Connected /\ NodeDirExists(cdResult) /\ UNCHANGED << authVars, retryVars, connVars, webVars >>
    \/ \E ok \in BOOLEAN : DownloadNode(ok) /\ UNCHANGED << authVars, retryVars, connVars, webVars >>
    \/ Connected /\ CopyNode /\ UNCHANGED << authVars, retryVars, connVars, webVars >>
    \/ \E result \in TarResults :
          Connected /\ UnzipNode(result) /\ UNCHANGED << authVars, retryVars, connVars, webVars >>
    \/ \E c \in CdResults(libDir) : \E cdResult \in Answers(c) :
          Connected /\ LibDirExists(cdResult) /\ UNCHANGED << authVars, retryVars, connVars, webVars >>
    \/ Connected /\ CopyLib /\ UNCHANGED << authVars, retryVars, connVars, webVars >>
    \/ \E result \in TarResults :
          Connected /\ UnzipLib(result) /\ UNCHANGED << authVars, retryVars, connVars, webVars >>
    \/ \E result \in LaunchResults(nodeDir /\ libDir) :
          Connected /\ StartApplication(result) /\ UNCHANGED << authVars, retryVars, connVars, webVars >>
    \/ ProxyServerReady /\ UNCHANGED << authVars, retryVars, connVars, webVars >>
    \/ SessionEnd /\ UNCHANGED << authVars, retryVars, webVars >>
    \/ DisposeRegistration
         /\ UNCHANGED << authVars, retryVars, connVars, routerVars, redirectVars, forwardedTo >>
    \/ ProxyConnection
         /\ UNCHANGED << authVars, retryVars, connVars, routerVars, redirectVars, released >>

SpecSetup == InitSetup /\ [][SetupNext]_vars

InitExec == AuthIdle /\ RetryIdle /\ SetupIdle /\ ConnInit /\ WebIdle

ExecNext ==
    \/ ExecCall("exec", NoTester) /\ UNCHANGED << authVars, retryVars, setupVars, webVars >>
    \/ \E t \in Testers :
          ExecCall("execPartial", t) /\ UNCHANGED << authVars, retryVars, setupVars, webVars >>
    \/ ExecError /\ UNCHANGED << authVars, retryVars, setupVars, webVars >>
    \/ ExecOpen /\ UNCHANGED << authVars, retryVars, setupVars, webVars >>
    \/ \E chunk \in Chunks :
          StdoutData(chunk) /\ UNCHANGED << authVars, retryVars, setupVars, webVars >>
    \/ \E chunk \in Chunks :
          StderrData(chunk) /\ UNCHANGED << authVars, retryVars, setupVars, webVars >>
    \/ StreamClose /\ UNCHANGED << authVars, retryVars, setupVars, webVars >>

SpecExec == InitExec /\ [][ExecNext]_vars

InitConn == AuthIdle /\ RetryIdle /\ SetupIdle /\ ConnInit /\ WebIdle

ConnNext ==
    \/ ClientEnd /\ UNCHANGED << authVars, retryVars, setupVars, webVars >>
    \/ Dispose /\ UNCHANGED << authVars, retryVars, setupVars, webVars >>
    \/ ExecCall("exec", NoTester) /\ UNCHANGED << authVars, retryVars, setupVars, webVars >>
    \/ \E t \in Testers :
          ExecCall("execPartial", t) /\ UNCHANGED << authVars, retryVars, setupVars, webVars >>
    \/ ExecError /\ UNCHANGED << authVars, retryVars, setupVars, webVars >>
    \/ ExecOpen /\ UNCHANGED << authVars, retryVars, setupVars, webVars >>
    \/ CopyCall /\ UNCHANGED << authVars, retryVars, setupVars, webVars >>
    \/ \E ok \in BOOLEAN :
          CopySettled(ok) /\ UNCHANGED << authVars, retryVars, setupVars, webVars >>
    \/ \E socket \in Sockets :
          ForwardOut(socket) /\ UNCHANGED << authVars, retryVars, setupVars, webVars >>
    \/ \E socket \in Sockets :
          ForwardRejected(socket) /\ UNCHANGED << authVars, retryVars, setupVars, webVars >>
    \/ \E socket \in Sockets :
          ForwardAccepted(socket) /\ UNCHANGED << authVars, retryVars, setupVars, webVars >>

SpecConn == InitConn /\ [][ConnNext]_vars

InitRouter == AuthIdle /\ RetryIdle /\ RouterInit /\ ConnIdle /\ RedirectIdle /\ released = 0 /\ forwardedTo = {}

RouterNext ==
    \/ \E id \in Sessions :
          Register(id) /\ UNCHANGED << authVars, retryVars, connVars, redirectVars, released, forwardedTo >>
    \/ \E id \in Sessions :
          ServerReady(id) /\ UNCHANGED << authVars, retryVars, connVars, redirectVars, released, forwardedTo >>
    \/ \E id \in Sessions :
          End(id) /\ UNCHANGED << authVars, retryVars, connVars, redirectVars, released, forwardedTo >>
    \/ \E method \in HttpMethods : \E path \in Paths : \E remoteId \in Cookies :
          Request(method, path, remoteId)
             /\ UNCHANGED << authVars, retryVars, connVars, redirectVars, released, forwardedTo >>

SpecRouter == InitRouter /\ [][RouterNext]_vars

InitRedirect == AuthIdle /\ RetryIdle /\ RedirectInit /\ ConnIdle /\ released = 0 /\ forwardedTo = {}

RedirectNext ==
    \/ \E c \in Redirects :
          RedirectCall(c)
             /\ UNCHANGED << authVars, retryVars, connVars, routerVars, routerStack, bootstrapVars, released, forwardedTo >>
    \/ \E c \in Redirects :
          TunnelResolved(c)
             /\ UNCHANGED << authVars, retryVars, connVars, routerVars, routerStack, bootstrapVars, released, forwardedTo >>
    \/ \E c \in Redirects :
          TunnelRejected(c)
             /\ UNCHANGED << authVars, retryVars, connVars, routerVars, routerStack, bootstrapVars, released, forwardedTo >>
    \/ \E c \in Redirects :
          ClientEvent(c)
             /\ UNCHANGED << authVars, retryVars, connVars, routerVars, routerStack, bootstrapVars, released, forwardedTo >>
    \/ \E c \in Redirects :
          ProxyEvent(c)
             /\ UNCHANGED << authVars, retryVars, connVars, routerVars, routerStack, bootstrapVars, released, forwardedTo >>
    \/ \E c \in Redirects :
          ClientDisconnect(c)
             /\ UNCHANGED << authVars, retryVars, connVars, routerVars, routerStack, bootstrapVars, released, forwardedTo >>
    \/ \E c \in Redirects :
          ProxySocketClosed(c)
             /\ UNCHANGED << authVars, retryVars, connVars, routerVars, routerStack, bootstrapVars, released, forwardedTo >>
    \/ RemoteDisconnect
         /\ UNCHANGED << authVars, retryVars, connVars, routerVars, routerStack, bootstrapVars, released, forwardedTo >>

SpecRedirect == InitRedirect /\ [][RedirectNext]_vars


(***************************************************************************)
(* Properties of the authentication handler                                *)
(***************************************************************************)

\* C1: the password prompt is shown at most passwordRetryCount times in one
\* connection attempt; once the budget is used up no password prompt is shown
\* and no password is submitted any more, and an invocation that comes to the
\* password step (a method list is given and the publickey branch does not
\* apply) falls through to keyboard-interactive if that is offered and has
\* budget left, and signals authentication failure otherwise.
C1_PasswordBudget ==
    /\ [](passwordPrompts <= PasswordRetryCount)
    /\ [][passwordRetryCount <= 0 =>
            /\ passwordPrompts' = passwordPrompts
            /\ passwordSubmits' = passwordSubmits
            /\ pc' # "password"
            /\ (lastCallback'.type = "password" => lastCallback' = lastCallback)]_vars
    /\ [][(/\ pc = "await"
           /\ passwordRetryCount <= 0
           /\ methodsLeft' # NULL
           /\ ~("publickey" \in methodsLeft' /\ Len(identityKeys) > 0)) =>
            IF "keyboard-interactive" \in methodsLeft' /\ keyboardRetryCount > 0
            THEN lastCallback'.type = "keyboard-interactive" /\ pc' = "submitted"
            ELSE lastCallback'.type = "END_AUTH" /\ pc' = "failed"]_vars

\* three password prompts were answered and refused, and the next invocation,
\* still offered 'password', submitted keyboard-interactive instead
C1_Witness ==
    /\ passwordPrompts = PasswordRetryCount
    /\ passwordRetryCount = 0
    /\ "password" \in methodsLeft
    /\ branch = "keyboard-interactive"
    /\ lastCallback.type = "keyboard-interactive"

\* C2: keyboard-interactive is submitted at most its budget (3) times in one
\* connection attempt, whatever the server does with the requests.
C2_KeyboardSubmitsBounded == kbdSubmits <= PassphraseRetryCount

\* C3: whenever the server offers publickey and a candidate remains, the
\* invocation takes the publickey branch: it shows no password and no
\* keyboard-interactive prompt and leaves both budgets alone, also while its
\* passphrase loop runs; and when the server offered publickey all along and
\* the first candidate is submitted (and accepted), both budgets still have
\* their initial values.
C3_PublicKeyFirst ==
    /\ [][(pc = "await" /\ "publickey" \in methodsLeft' /\ Len(identityKeys) > 0) =>
            /\ branch' = "publickey"
            /\ pc' \notin {"password", "kbdprompt"}
            /\ lastCallback'.type \in {"publickey", "NEXT_AUTH"} \/ pc' = "passphrase"]_vars
    /\ [][(branch' = "publickey") =>
            /\ passwordRetryCount' = passwordRetryCount
            /\ keyboardRetryCount' = keyboardRetryCount
            /\ passwordPrompts' = passwordPrompts
            /\ kbdSubmits' = kbdSubmits
            /\ pc' \notin {"password", "kbdprompt"}]_vars
    /\ []((/\ publickeyOffered
           /\ lastCallback.type = "publickey"
           /\ lastCallback.key = 1) =>
            /\ passwordRetryCount = PasswordRetryCount
            /\ keyboardRetryCount = PassphraseRetryCount
            /\ passwordPrompts = 0
            /\ kbdSubmits = 0)

\* the first candidate is decrypted key material, the server accepted it,
\* and nothing was taken from either budget
C3_Witness ==
    /\ pc = "ready"
    /\ lastCallback = Callback("publickey", 1, "")
    /\ taken = << 1 >>
    /\ curKey = NoKey
    /\ passwordRetryCount = PasswordRetryCount
    /\ keyboardRetryCount = PassphraseRetryCount

\* C4: every invocation that takes the publickey branch removes exactly the
\* first remaining candidate; the list changes in no other step and never
\* grows; candidates are taken in the given order; the candidate that is
\* read or submitted is the one just removed, and no candidate is submitted
\* twice.
C4_CandidateOnce ==
    /\ [](/\ taken = [i \in 1..Len(taken) |-> i]
          /\ \A i \in 1..Len(identityKeys) : identityKeys[i].id = Len(taken) + i
          /\ Len(taken) + Len(identityKeys) <= MaxKeys
          /\ \A i, j \in 1..Len(submittedKeys) :
                submittedKeys[i] = submittedKeys[j] => i = j
          /\ Range(submittedKeys) \subseteq Range(taken)
          /\ (pc = "passphrase" => curKey.id = taken[Len(taken)]))
    /\ [][IF pc = "await" /\ branch' = "publickey"
          THEN /\ identityKeys # << >>
               /\ identityKeys' = Tail(identityKeys)
               /\ taken' = Append(taken, Head(identityKeys).id)
          ELSE /\ identityKeys' = identityKeys
               /\ taken' = taken]_vars
    /\ [][submittedKeys' # submittedKeys =>
            /\ submittedKeys' = Append(submittedKeys, taken'[Len(taken')])
            /\ lastCallback' = Callback("publickey", taken'[Len(taken')], "")]_vars

\* two candidates were taken one after the other and both were submitted
C4_Witness ==
    /\ taken = << 1, 2 >>
    /\ submittedKeys = << 1, 2 >>
    /\ identityKeys = << >>

\* C5 as stated: an invocation with no method list, or with an empty method
\* list, authenticates with 'none' and consumes nothing.
C5_NoneForNullOrEmpty ==
    [][(pc = "await" /\ methodsLeft' \in {NULL, {}} /\ branch' # branch) =>
            /\ lastCallback'.type = "none"
            /\ UNCHANGED << identityKeys, passwordRetryCount, keyboardRetryCount,
                            passwordPrompts, kbdSubmits >>]_vars

\* C5, amended: an invocation with no method list (null) authenticates with
\* 'none'; an invocation with an empty method list signals authentication
\* failure; neither prompts the user nor consumes a candidate or a budget.
C5_NoneForNull ==
    /\ [][(pc = "await" /\ (methodsLeft' \in {NULL, {}}) /\ branch' \notin {branch, "rejected"}) =>
            /\ UNCHANGED << identityKeys, passwordRetryCount, keyboardRetryCount,
                            passwordPrompts, kbdSubmits, taken >>
            /\ pc' \notin {"password", "passphrase", "kbdprompt"}]_vars
    /\ []((branch = "none") <=> (methodsLeft = NULL /\ branch \notin {"start", "rejected"}))
    /\ [](branch = "none" => lastCallback.type = "none")
    /\ []((methodsLeft = {} /\ branch \notin {"start", "rejected"}) =>
            (branch = "end" /\ lastCallback.type = "END_AUTH" /\ pc = "failed"))

\* the handler was called without a method list and asked for 'none' with
\* candidates and budgets untouched
C5_Witness ==
    /\ branch = "none"
    /\ methodsLeft = NULL
    /\ lastCallback.type = "none"
    /\ pc = "submitted"
    /\ Len(identityKeys) = MaxKeys
    /\ passwordRetryCount = PasswordRetryCount

\* C6: a cancelled password prompt ends the attempt in that invocation:
\* nothing is submitted and keyboard-interactive is not tried; a password
\* that the user supplies is submitted as given and the budget drops by one.
C6_PasswordCancel ==
    [][pc = "password" =>
        /\ (lastInput' = UNDEFINED =>
              /\ lastCallback'.type = "END_AUTH"
              /\ pc' = "failed"
              /\ passwordSubmits' = passwordSubmits
              /\ kbdSubmits' = kbdSubmits)
        /\ (Truthy(lastInput') =>
              /\ lastCallback' = Callback("password", 0, lastInput')
              /\ pc' = "submitted"
              /\ passwordSubmits' = passwordSubmits + 1
              /\ passwordRetryCount' = passwordRetryCount - 1)]_vars

\* the password prompt was cancelled while keyboard-interactive was offered
\* and had budget left, and the attempt failed
C6_Witness ==
    /\ branch = "password"
    /\ lastInput = UNDEFINED
    /\ pc = "failed"
    /\ lastCallback.type = "END_AUTH"
    /\ "keyboard-interactive" \in methodsLeft
    /\ keyboardRetryCount > 0

\* the answers given before the first cancelled prompt, in prompt order
RECURSIVE BeforeCancel(_)
BeforeCancel(answers) ==
    IF answers = << >> \/ Head(answers) = UNDEFINED THEN << >>
    ELSE << Head(answers) >> \o BeforeCancel(Tail(answers))

\* C7: in a keyboard-interactive round a cancelled prompt is the last prompt
\* shown, the responses handed to finish are those given before it, in
\* prompt order, and keyboard-interactive is never submitted again.
C7_KeyboardCancel ==
    /\ [](\A i \in 1..Len(kbdAnswers) :
            kbdAnswers[i] = UNDEFINED => (i = Len(kbdAnswers) /\ pc # "kbdprompt"))
    /\ []((finished # NotFinished /\ UNDEFINED \in Range(kbdAnswers)) =>
            /\ finished = BeforeCancel(kbdAnswers)
            /\ kbdIndex = Len(kbdAnswers)
            /\ Len(finished) = kbdIndex - 1)
    /\ [][kbdCancelled => kbdSubmits' = kbdSubmits]_vars

\* the second of two prompts was cancelled after the first was answered: the
\* round ended there, the one response was handed to finish and the budget
\* is gone
C7_Witness ==
    /\ kbdPrompts = 2
    /\ kbdAnswers = << "yes", UNDEFINED >>
    /\ finished = << "yes" >>
    /\ kbdCancelled
    /\ keyboardRetryCount < 0
    /\ pc = "submitted"

(***************************************************************************)
(* Properties of retry                                                     *)
(***************************************************************************)
\* the attempts, among the first n, that return output
WithOutput(action, n) == { i \in 1..n : HasOutput(action[i]) }
Min(S) == CHOOSE x \in S : \A y \in S : x <= y

\* C9: retry makes exactly min(k, times) attempts, k being the first attempt
\* that returns output, and returns that attempt's result; when none of the
\* first `times` attempts returns output it makes exactly `times` attempts
\* and returns the empty result.
C9_RetryBounded ==
    rPc = "returned" =>
        LET hits == WithOutput(rAction, rTimes)
        IN IF hits # {}
           THEN /\ rReturn.calls = Min(hits)
                /\ rReturn.result = rAction[Min(hits)]
           ELSE /\ rReturn.calls = rTimes
                /\ rReturn.result = Empty

\* twenty attempts returned nothing and retry gave the empty result back
C9_Witness ==
    /\ rPc = "returned"
    /\ rTimes = DefaultRetryTimes
    /\ rReturn = [result |-> Empty, calls |-> DefaultRetryTimes]
    /\ HasOutput(rAction[DefaultRetryTimes + 1])

(***************************************************************************)
(* Properties of establishConnection and setup                             *)
(***************************************************************************)
\* C8: when authentication, the transport or a bootstrap step (platform
\* detection, directory creation, download, copy, extraction, or a launch
\* whose output never shows the listening line) fails, establishConnection
\* has failed and left no trace of a session: the connection is not in the
\* registry, no proxy server is allocated, no proxy handler is in the router
\* and no disconnect listener is installed; nor is there any trace before
\* setup has returned.
C8_NoTraceOnFailure ==
    /\ (\/ error \in Errors
        \/ launches > 0 /\ ~RegexTest(launchResult.stdout)) =>
            /\ ePc = "failed"
            /\ registry = {}
            /\ servers = {}
            /\ "handleProxy" \notin Range(routerStack)
            /\ ~disconnectHandler
    /\ ePc \notin {"off", "proxyServer", "done"} =>
            /\ registry = {}
            /\ servers = {}
            /\ "handleProxy" \notin Range(routerStack)

\* the runtime and the payload were provisioned, the launch command printed
\* an error and no listening line, and establishConnection has failed
C8_Witness ==
    /\ ePc = "failed"
    /\ error = "launch"
    /\ launches = 1
    /\ copies = 2
    /\ launchResult.stderr # ""
    /\ ~RegexTest(launchResult.stdout)
    /\ registry = {}

\* C10: a setup that starts with the runtime directory and the payload
\* directory both on the remote never downloads a runtime, never copies a file
\* to the remote and never extracts an archive, and when it returns it has
\* issued the launch command once and the connection has the port the
\* backend printed.
C10_Idempotent ==
    (ePc # "off" /\ dirsAtStart = << TRUE, TRUE >>) =>
        /\ downloads = 0
        /\ copies = 0
        /\ extractions = 0
        /\ ePc \in {"proxyServer", "done"} =>
              /\ launches = 1
              /\ remotePort \in Ports
              /\ remotePort = Number(Capture(RegexExec(launchResult.stdout)))

\* C11: provisioning is gated per directory: the runtime is downloaded,
\* copied and extracted only while the runtime directory is absent on the
\* remote, the payload is copied and extracted only while the payload
\* directory is absent, and the launch command is issued only with both
\* directories on the remote.
C11_GatedPerDirectory ==
    /\ ePc \in {"downloadNode", "copyNode", "unzipNode"} => ~nodeDir
    /\ ePc \in {"copyLib", "unzipLib"} => ~libDir
    /\ launches > 0 => nodeDir /\ libDir

(***************************************************************************)
(* Properties of exec and execPartial                                      *)
(***************************************************************************)
\* C12: once the tester of execPartial has returned true, the tester is never
\* called again and the promise keeps the value it was resolved with at that
\* moment, the stdout and stderr accumulated up to and including the chunk
\* that made the tester true, whatever chunks arrive afterwards and when the
\* channel closes.
C12_NoTestAfterTrue ==
    /\ [][(xKind = "execPartial" /\ ~trueSeen /\ trueSeen') =>
            /\ deferred' = "resolved"
            /\ resolution' = [stdout |-> wireOut', stderr |-> wireErr']]_vars
    /\ [][trueSeen =>
            /\ testerCalls' = testerCalls
            /\ testerArgs' = testerArgs
            /\ deferred' = "resolved"
            /\ resolution' = resolution]_vars

\* the tester became true on the first chunk, two more chunks arrived and the
\* channel closed: the tester was called once and the value resolved holds
\* the first chunk only
C12_Witness ==
    /\ xKind = "execPartial"
    /\ trueSeen
    /\ channel = "closed"
    /\ testerCalls = 1
    /\ Len(wireOut) + Len(wireErr) = MaxChunks
    /\ Len(resolution.stdout) + Len(resolution.stderr) = 1
    /\ deferred = "resolved"

\* C13: the promise of execPartial is resolved at most once; while it is
\* unresolved every chunk on stdout and every chunk on stderr is followed by
\* one call of the tester on everything received so far on both streams; it
\* is resolved exactly when the tester returns true or the channel closes,
\* whichever is first, and on a close without a true tester it is resolved
\* with everything received.
C13_ResolvesOnce ==
    /\ [](xKind = "execPartial" => resolveCalls <= 1)
    /\ []((xKind = "execPartial" /\ deferred # "rejected") =>
            (deferred = "resolved" <=> (trueSeen \/ channel = "closed")))
    /\ [][(/\ xKind = "execPartial"
           /\ deferred = "unresolved"
           /\ << wireOut, wireErr >> # << wireOut', wireErr' >>) =>
            /\ testerCalls' = testerCalls + 1
            /\ testerArgs' = << wireOut', wireErr' >>
            /\ trueSeen' = Test(tester, wireOut', wireErr')]_vars
    /\ [][(/\ xKind = "execPartial"
           /\ channel = "open"
           /\ channel' = "closed"
           /\ ~trueSeen) =>
            /\ deferred' = "resolved"
            /\ resolveCalls' = 1
            /\ resolution' = [stdout |-> wireOut, stderr |-> wireErr]]_vars

\* chunks arrived on both streams, the tester was called after each and never
\* returned true, and the close resolved the promise with all of them
C13_Witness ==
    /\ xKind = "execPartial"
    /\ channel = "closed"
    /\ ~trueSeen
    /\ testerCalls = MaxChunks
    /\ Len(wireOut) > 0
    /\ Len(wireErr) > 0
    /\ deferred = "resolved"
    /\ resolution = [stdout |-> wireOut, stderr |-> wireErr]

(***************************************************************************)
(* Properties of the launch step and of platform detection                 *)
(***************************************************************************)
\* the port a listening line names
PortOf(line) == IF line = "listening on http://localhost:3000" THEN 3000 ELSE 53211

\* the lines of a stdout that match the launch pattern, in order
Matches(text) == SelectSeq(text, LAMBDA line : line \in ListeningLines)

\* C14: after the launch command, if the stdout received holds a line
\* 'listening on http://localhost:<port>', the connection's port is the port
\* of the first such line and nothing was thrown; if the channel closed with
\* no such line, establishConnection has failed with the error 'Could not
\* start remote system: ' followed by the stderr received, and the
\* connection's port is still 0.
C14_LaunchPort ==
    launches > 0 =>
        IF Matches(launchResult.stdout) # << >>
        THEN /\ error = "none"
             /\ remotePort = PortOf(Head(Matches(launchResult.stdout)))
        ELSE /\ ePc = "failed"
             /\ error = "launch"
             /\ message = << "Could not start remote system: ", launchResult.stderr >>
             /\ remotePort = 0

\* the channel of the launch command closed after a line that does not match
\* and an error on stderr: the failure carries that stderr, the port is 0
C14_Witness ==
    /\ launches = 1
    /\ launchResult.stdout = << "root INFO" >>
    /\ message = << "Could not start remote system: ", "node: not found" >>
    /\ error = "launch"
    /\ remotePort = 0

\* C15: detection returns windows only for a probe with something on stderr
\* or with a stdout that names windows32 or MINGW64, linux only for a probe
\* with an empty stderr and a stdout that names Linux, darwin only for one
\* with an empty stderr and a stdout that names Darwin; for any other probe,
\* the one still empty after all retries included, establishConnection fails
\* with 'Failed to identify remote system', and without a platform no later
\* step of the bootstrap has run.
C15_DetectByContent ==
    /\ platform = "windows" =>
          \/ unameResult.stderr # ""
          \/ unameResult.stdout \in {"windows32", "MINGW64_NT-10.0"}
    /\ platform = "linux" =>
          unameResult.stderr = "" /\ unameResult.stdout = "Linux"
    /\ platform = "darwin" =>
          unameResult.stderr = "" /\ unameResult.stdout = "Darwin"
    /\ (platform = NoPlatform /\ ePc \notin {"off", "ssh", "detect"}) =>
          /\ ePc = "failed"
          /\ error \in {"auth", "transport", "detect"}
          /\ downloads = 0 /\ copies = 0 /\ extractions = 0 /\ launches = 0
    /\ error = "detect" =>
          /\ unameResult.stderr = ""
          /\ unameResult.stdout \notin {"windows32", "MINGW64_NT-10.0", "Linux", "Darwin"}
          /\ message = << "Failed to identify remote system: ",
                          unameResult.stdout, unameResult.stderr >>
    /\ (ePc \notin {"off", "ssh", "detect"} /\ error \notin {"auth", "transport"}
        /\ unameResult.stderr = ""
        /\ unameResult.stdout \notin {"windows32", "MINGW64_NT-10.0", "Linux", "Darwin"}) =>
          error = "detect"

\* the probe was still empty after all retries and detection has failed
C15_Witness ==
    /\ ePc = "failed"
    /\ error = "detect"
    /\ unameResult = Empty
    /\ platform = NoPlatform

\* C16: the connection's port is 0 from the creation of the connection until
\* setup assigns it; it changes only in the step that ends the bootstrap,
\* from 0 to the port of the launch output, and once it is not 0 it never
\* changes again.
C16_PortAssignedOnce ==
    /\ [](ePc \notin {"off", "proxyServer", "done"} => remotePort = 0)
    /\ [](ePc \in {"proxyServer", "done"} => remotePort \in {3000, 53211})
    /\ [][remotePort # 0 => remotePort' = remotePort]_vars
    /\ [][remotePort' # remotePort =>
            /\ ePc = "start"
            /\ ePc' = "proxyServer"
            /\ remotePort = 0
            /\ remotePort' = PortOf(Head(Matches(launchResult'.stdout)))]_vars

\* establishConnection has returned and the connection has the port printed
\* after an earlier line of output
C16_Witness ==
    /\ ePc = "done"
    /\ launchResult.stdout = << "root INFO", "listening on http://localhost:53211" >>
    /\ remotePort = 53211

(***************************************************************************)
(* Properties of the connection's lifetime                                 *)
(***************************************************************************)
\* C17: in the step in which the disconnect event of an established session
\* fires, the session's proxy server is closed, its proxy handler is taken
\* out of the router and its entry is removed from the registry; from then
\* on the registry does not return the connection for the session id.
C17_DisconnectCleansUp ==
    /\ [][(disconnectHandler /\ emitted' = emitted + 1) =>
            /\ SessionId \notin servers'
            /\ "handleProxy" \notin Range(routerStack')
            /\ ~getConnection(registry', SessionId)]_vars
    /\ [][(ePc = "done" /\ ~getConnection(registry, SessionId)) =>
            ~getConnection(registry', SessionId)]_vars

\* an established session whose proxy handler was in the router has
\* disconnected once: no server, no handler and no registry entry are left
C17_Witness ==
    /\ ePc = "done"
    /\ emitted = 1
    /\ proxyRouter = "layer"
    /\ servers = {}
    /\ registry = {}
    /\ "handleProxy" \notin Range(routerStack)

\* C18: over the lifetime of a connection, whatever 'end' events the client
\* emits and whatever calls of dispose() are made, the disconnect
\* notification is emitted exactly once: never twice, and once as soon as the
\* transport has ended or the connection was disposed.
C18_DisconnectOnce ==
    /\ emitted <= 1
    /\ (ends > 0 \/ destroys > 0) => emitted = 1

\* C19: after the disconnect notification no call of exec, execPartial, copy
\* or forwardOut reaches the client: none asks for a channel, a transfer or a
\* forward on the closed connection.
C19_FailFastWhenClosed == closedCalls = {}

\* C20: a forward request the remote rejects writes one debug line and does
\* nothing else: the socket is not piped, no disconnect is emitted, the
\* client is not destroyed, and the other forwards, the command in flight and
\* the copy stay as they are; a forward request the remote accepts pipes the
\* stream to the socket and the socket to the stream, and nothing but an
\* accepted request pipes a socket.
C20_ForwardRejectedOnlyLogs ==
    /\ [][\A k \in Sockets :
            (forwards[k] = "requested" /\ forwards'[k] = "rejected") =>
                /\ debugLogs' = debugLogs + 1
                /\ piped' = piped
                /\ UNCHANGED << lifeVars, execVars, copyState >>
                /\ \A j \in Sockets \ {k} : forwards'[j] = forwards[j]]_vars
    /\ [][\A k \in Sockets :
            (forwards[k] = "requested" /\ forwards'[k] = "piped") =>
                /\ piped' = piped \cup { << k, "stream to socket" >>,
                                         << k, "socket to stream" >> }
                /\ debugLogs' = debugLogs]_vars
    /\ [](\A k \in Sockets :
            /\ forwards[k] = "piped" =>
                  { << k, "stream to socket" >>, << k, "socket to stream" >> } \subseteq piped
            /\ forwards[k] # "piped" =>
                  \A d \in {"stream to socket", "socket to stream"} : << k, d >> \notin piped)

\* one forward was rejected and logged, another was accepted and piped in
\* both directions, and the connection was never disconnected or destroyed
C20_Witness ==
    /\ forwards[1] = "rejected"
    /\ forwards[2] = "piped"
    /\ debugLogs = 1
    /\ piped = { << 2, "stream to socket" >>, << 2, "socket to stream" >> }
    /\ emitted = 0
    /\ destroys = 0

\* C21: an HTTP request is forwarded to a session's proxy server if and only
\* if its remoteId cookie is the id of a session that is live (established
\* and not disconnected), and to that session's server only; every other
\* request is not forwarded
C21_ForwardedIffLive ==
    exchange.by # "none" =>
        \A id \in Sessions :
            exchange.by = handleProxy(id)
                <=> (exchange.remoteId = id /\ id \in exchange.live)


\* C22: GET /remote/status is answered by the status handler itself, never
\* by a proxy layer, whatever the cookie; the answer says alive exactly when
\* the cookie names a connection of the registry
C22_StatusAnsweredLocally ==
    (exchange.method = "GET" /\ exchange.path = "/remote/status") =>
        /\ exchange.by = "status"
        /\ exchange.alive <=> exchange.remoteId \in exchange.known

Without(stack, id) == SelectSeq(stack, LAMBDA l : l # handleProxy(id))

\* C24: whenever the handle setupProxyRouter returned for a session is
\* disposed, the first time and every further time, the stack loses that
\* session's proxy layer and nothing else, the other layers keeping their
\* order
C24_DisposeRemovesOnlyOwn ==
    [][\A id \in Sessions :
          (stage[id] = "ready" /\ ended'[id] = ended[id] + 1) =>
              routerStack' = Without(routerStack, id)]_vars

\* C25: for a channel redirect has set up (it returned true), closing either
\* side tears down both: a disconnected client socket has its proxy socket
\* closed and its proxy session disposed, and a closed proxy socket or a
\* disconnected session has the client socket disconnected and the proxy
\* session disposed
C25_BothSidesTornDown ==
    \A c \in Redirects :
        rdPc[c] = "true" =>
            /\ clientSocket[c] = "disconnected" =>
                  (proxySocket[c] = "closed" /\ proxySession[c] = "disposed")
            /\ (proxySocket[c] = "closed" \/ rdCookie[c] \notin registry) =>
                  (clientSocket[c] = "disconnected" /\ proxySession[c] = "disposed")

\* C26: redirect returns false, having installed no relay, relayed no event
\* and taken no tunnel, when the socket has no remoteId cookie or the cookie
\* names no registered session; it returns true only with the tunnel
\* obtained and the relay installed; it never ends in an error
C26_RedirectResult ==
    /\ [](\A c \in Redirects :
            /\ rdPc[c] \in {"start", "tunnel", "true", "false"}
            /\ ~Truthy(rdCookie[c]) => rdPc[c] \in {"start", "false"}
            /\ rdPc[c] = "false" =>
                  (~rdListeners[c] /\ relayed[c] = << 0, 0 >> /\ proxySession[c] = "none")
            /\ rdPc[c] = "true" =>
                  (Truthy(rdCookie[c]) /\ rdListeners[c] /\ proxySession[c] # "none"))
    /\ [][\A c \in Redirects :
            (rdPc[c] = "tunnel" /\ rdPc'[c] # "tunnel") =>
                rdPc'[c] = IF rdCookie[c] \in registry THEN "true" ELSE "false"]_vars

\* one socket was refused for a cookie that names no session, one for a
\* missing cookie, or one was refused and another redirected
C26_Witness ==
    \E c, d \in Redirects :
        /\ rdPc[c] = "false" /\ rdCookie[c] = "s0"
        /\ \/ rdPc[d] = "true" /\ relayed[d] # << 0, 0 >>
           \/ rdPc[d] = "false" /\ rdCookie[d] = UNDEFINED

\* the requests with the cookie of a session that its proxy layer answers
ForwardedFor(stack, id) ==
    { << m, p >> \in HttpMethods \X Paths : Dispatch(stack, m, p, id) = handleProxy(id) }

\* C27: with several sessions established, when the disconnect listener of
\* one runs, that session's proxy server is closed and its registry entry is
\* gone, and for every other established session the proxy server, the
\* registry entry and the proxy layer stay and the requests with its
\* remoteId that were forwarded to it still are
C27_SessionsIsolated ==
    [][\A id \in Sessions :
          (stage[id] = "ready" /\ ended'[id] = ended[id] + 1) =>
              /\ id \notin servers'
              /\ id \notin registry'
              /\ \A other \in Sessions \ {id} :
                    stage[other] = "ready" =>
                       /\ other \in servers' <=> other \in servers
                       /\ other \in registry' <=> other \in registry
                       /\ handleProxy(other) \in Range(routerStack')
                             <=> handleProxy(other) \in Range(routerStack)
                       /\ ForwardedFor(routerStack', other)
                             = ForwardedFor(routerStack, other)]_vars

\* C28: disposing the handle register() returned removes the connection's
\* entry the first time and changes nothing any further time; the disconnect
\* listener runs to its end after such a disposal, without an error, and
\* leaves the entry removed; once removed the entry does not come back, so
\* it is removed exactly once however disposals and disconnects interleave
C28_RegistrationIdempotent ==
    [][/\ released' = released + 1 =>
             /\ registry' = registry \ {SessionId}
             /\ SessionId \notin registry => UNCHANGED << setupVars, connVars >>
       /\ (disconnectHandler /\ ends' = ends + 1) =>
             /\ SessionId \notin registry'
             /\ UNCHANGED << error, message, ePc >>
       /\ (ePc \in {"proxyServer", "done"} /\ SessionId \notin registry) =>
             SessionId \notin registry']_vars

\* the handle has been disposed twice by hand and the disconnect listener
\* has run after that
C28_Witness ==
    /\ released = MaxDisposes
    /\ disconnectHandler
    /\ ends > 0
    /\ SessionId \notin registry

\* the passphrase just entered makes the candidate's key usable
Usable(key, passphrase) == Truthy(passphrase) /\ ~IsError(parseKey(key, passphrase))

\* C29: for a candidate whose key file needs a passphrase, the prompt is
\* shown at most passphraseRetryCount times; each entry is used to parse the
\* key again: an entry that yields the key submits that candidate, a wrong
\* entry with budget left shows the prompt once more, and a cancelled or
\* empty prompt or a wrong entry that uses up the budget abandons the
\* candidate with NEXT_AUTH, no key submitted, the handler awaiting its next
\* invocation
C29_PassphraseLoop ==
    /\ [](passphrasePrompts <= PassphraseRetryCount)
    /\ [][pc = "passphrase" =>
            IF Usable(curKey, lastInput')
            THEN /\ submittedKeys' = Append(submittedKeys, curKey.id)
                 /\ lastCallback' = Callback("publickey", curKey.id, "")
            ELSE /\ submittedKeys' = submittedKeys
                 /\ IF Truthy(lastInput') /\ passphrasePrompts < PassphraseRetryCount
                    THEN pc' = "passphrase" /\ passphrasePrompts' = passphrasePrompts + 1
                    ELSE /\ lastCallback' = Callback("NEXT_AUTH", 0, "")
                         /\ pc' = "await"
                         /\ passphrasePrompts' = passphrasePrompts
                         /\ identityKeys' = identityKeys]_vars

\* the prompt was shown three times for one candidate, each entry was wrong,
\* and the candidate was abandoned
C29_Witness ==
    /\ passphrasePrompts = PassphraseRetryCount
    /\ lastInput = "wrong"
    /\ curKey.kind = "encrypted"
    /\ lastCallback = Callback("NEXT_AUTH", 0, "")
    /\ curKey.id \notin Range(submittedKeys)
    /\ pc = "await"

\* C30: the two retry budgets live across the invocations of one handler and
\* are independent: the password budget changes only by the decrement that
\* follows a password prompt, the keyboard-interactive budget only inside a
\* keyboard-interactive round, where it goes down or ends below zero; a step
\* that changes one leaves the other, the start of an invocation changes
\* neither, and neither does a publickey step (taking, skipping or submitting
\* a candidate, the passphrase loop included)
C30_BudgetsIndependent ==
    /\ [][passwordRetryCount' # passwordRetryCount =>
             /\ pc = "password"
             /\ passwordRetryCount' = passwordRetryCount - 1
             /\ keyboardRetryCount' = keyboardRetryCount]_vars
    /\ [][keyboardRetryCount' # keyboardRetryCount =>
             /\ pc \in {"submitted", "kbdprompt"}
             /\ lastCallback.type = "keyboard-interactive"
             /\ keyboardRetryCount' < keyboardRetryCount \/ keyboardRetryCount' < 0
             /\ passwordRetryCount' = passwordRetryCount]_vars
    /\ [][(pc = "await" \/ pc = "passphrase" \/ branch' = "publickey") =>
             /\ passwordRetryCount' = passwordRetryCount
             /\ keyboardRetryCount' = keyboardRetryCount]_vars
    /\ [](passwordRetryCount <= PasswordRetryCount
            /\ keyboardRetryCount <= PassphraseRetryCount)

\* a candidate was taken, a password prompt was answered and a
\* keyboard-interactive round was finished: each budget is down by one and
\* the handler awaits its next invocation
C30_Witness ==
    /\ pc = "await"
    /\ taken # << >>
    /\ passwordRetryCount = PasswordRetryCount - 1
    /\ keyboardRetryCount = PassphraseRetryCount - 1
    /\ passwordPrompts = 1

(***************************************************************************)
(* Properties of exec, of the disconnect race, of spliceRouter and of the  *)
(* order of establishConnection                                            *)
(***************************************************************************)
\* C31: the promise of exec stays unresolved until the channel closes; the
\* close resolves it, once, with every stdout chunk in arrival order as
\* stdout and every stderr chunk in arrival order as stderr, however the
\* chunks of the two streams interleave; when client.exec reports an error
\* instead of a channel, the promise is rejected and carries no result
C31_ExecResolvesOnClose ==
    /\ [](xKind = "exec" =>
            /\ deferred = "resolved" => channel = "closed"
            /\ channel = "closed" => deferred \in {"resolved", "rejected"}
            /\ deferred = "resolved" =>
                  /\ resolution = [stdout |-> wireOut, stderr |-> wireErr]
                  /\ resolveCalls = 1
            /\ deferred # "resolved" => (resolution = NoResult /\ resolveCalls = 0))
    /\ [][(xKind = "exec" /\ channel = "requested" /\ channel' = "closed") =>
            /\ deferred' = "rejected"
            /\ resolution' = NoResult
            /\ wireOut' = << >> /\ wireErr' = << >>]_vars
    /\ [][(xKind = "exec" /\ deferred = "rejected") =>
            /\ deferred' = "rejected"
            /\ resolution' = NoResult]_vars

\* chunks arrived on both streams of an exec channel, stderr first, and the
\* close resolved the promise with all of them
C31_Witness ==
    /\ xKind = "exec"
    /\ channel = "closed"
    /\ deferred = "resolved"
    /\ Len(wireOut) + Len(wireErr) = MaxChunks
    /\ Len(wireOut) > 0
    /\ Len(wireErr) > 0
    /\ resolution = [stdout |-> wireOut, stderr |-> wireErr]

\* C32: a session whose client has emitted 'end' after register() returned,
\* at whatever point of establishConnection, has no entry in the registry
\* and no proxy server
C32_NoDisconnectedInRegistry ==
    \A id \in Sessions :
        (stage[id] # "off" /\ ended[id] > 0) =>
            (id \notin registry /\ id \notin servers)

\* C33: the spliceRouter call of setupProxyRouter only moves the layer that
\* was just added: afterwards the stack holds the new proxy layer and every
\* layer it held before, the old layers in their old order, whether or not a
\* layer is selected by the position callback
C33_SpliceKeepsLayers ==
    [][\A id \in Sessions :
          (stage[id] = "registered" /\ stage'[id] = "ready") =>
              /\ handleProxy(id) \in Range(routerStack')
              /\ Without(routerStack', id) = routerStack]_vars

\* C34: whenever the connection is in the registry, has a proxy server or a
\* proxy layer, or forwardOut was called on it by the proxy server, the
\* launch step has succeeded and remotePort is the port of the first
\* listening line of the launch output: no forward goes to port 0. The
\* connection is registered only in the step in which setup returns, before
\* any server or router layer exists, and the server and the layer come only
\* in the later step that completes establishConnection.
C34_OnlyAfterBootstrap ==
    /\ []((\/ SessionId \in registry
           \/ SessionId \in servers
           \/ "handleProxy" \in Range(routerStack)
           \/ forwardedTo # {}) =>
              /\ ePc \in {"proxyServer", "done"}
              /\ launches > 0
              /\ RegexTest(launchResult.stdout)
              /\ remotePort = PortOf(Head(Matches(launchResult.stdout)))
              /\ remotePort # NewConnectionPort
              /\ forwardedTo \subseteq { remotePort })
    /\ []((\/ SessionId \in servers
           \/ "handleProxy" \in Range(routerStack)
           \/ forwardedTo # {}) => ePc = "done")
    /\ [][(SessionId \notin registry /\ SessionId \in registry') =>
            /\ ePc = "start"
            /\ ePc' = "proxyServer"
            /\ remotePort' # NewConnectionPort
            /\ servers' = {}
            /\ "handleProxy" \notin Range(routerStack')]_vars
    /\ [][(\/ SessionId \notin servers /\ SessionId \in servers'
           \/ "handleProxy" \notin Range(routerStack) /\ "handleProxy" \in Range(routerStack')) =>
            /\ ePc = "proxyServer"
            /\ ePc' = "done"
            /\ SessionId \in servers']_vars

\* establishConnection has returned for a launch that printed the port after
\* an earlier line, the connection is registered and the proxy server has
\* forwarded a socket to that port
C34_Witness ==
    /\ ePc = "done"
    /\ SessionId \in registry
    /\ SessionId \in servers
    /\ launchResult.stdout = << "root INFO", "listening on http://localhost:53211" >>
    /\ forwardedTo = { 53211 }

====
